---- MODULE Spec2Model ----
(***************************************************************************)
(* Ability-assessment backend: the question generator with its per-stage   *)
(* novelty cache, the analysis call with its parser and fallback, and the  *)
(* analyze endpoint of the working application.                            *)
(*                                                                         *)
(* Conventions.  A text is a sequence of character codes: 1..9 are lower   *)
(* case letters and 11..19 the same letters in upper case.  A generated    *)
(* response is a sequence of tokens: an opening brace, a closing brace, a  *)
(* character of prose, or one "key": value member of a JSON object.  Real  *)
(* numbers are integers in thousandths (0.6 is 600, 100.0 is 100000).      *)
(***************************************************************************)
EXTENDS Integers, Sequences, FiniteSets, TLC

VARIABLES
    analyzer,             \* which analyzer class the instance is
    generated_questions,  \* self.generated_questions: stage -> list of questions
    pc,                   \* per caller: position in generate_question
    stage,                \* per caller: stage_name
    attempt,              \* per caller: the loop variable of range(3)
    requests,             \* per caller: POSTs issued by this call so far
    prompts,              \* per caller: the question prompts this call has sent
    outcomes,             \* per caller: how each finished attempt ended
    result,               \* per caller: the returned question
    callsMade,            \* generate_question calls started so far
    apc,                  \* position in analyze_responses / analyze_session
    behavioral_data,      \* behavioural metrics handed to analyze_responses
    aresponse,            \* what the inference call of the analysis produced
    aresult,              \* the AnalysisResult analyze_responses returned
    apath,                \* whether it came from the parser or the fallback
    modulesLoaded,        \* MODULES_LOADED of app_working.py
    profile,              \* what analyze_session of app_working.py returned
    ptext,                \* a generated text handed to the two parsers
    panalysis,            \* what _parse_analysis_result made of it
    pquestion,            \* what _parse_question_result made of it
    events,               \* the events handed to process_events
    event_groups,         \* its local event_groups, once computed
    behavioral_metrics,   \* what process_events returned or raised
    active_sessions,      \* active_sessions of app.py: session id -> session
    clock,                \* int(time.time() * 1000), the current millisecond
    http_status           \* status of the last response a session endpoint gave

qvars == <<generated_questions, pc, stage, attempt, requests, prompts,
           outcomes, result, callsMade>>
avars == <<apc, behavioral_data, aresponse, aresult, apath, modulesLoaded,
           profile>>
pvars == <<ptext, panalysis, pquestion>>
evars == <<events, event_groups, behavioral_metrics>>
svars == <<active_sessions, clock, http_status>>
vars == <<analyzer, generated_questions, pc, stage, attempt, requests,
          prompts, outcomes, result, callsMade, apc, behavioral_data, aresponse,
          aresult, apath, modulesLoaded, profile, ptext, panalysis, pquestion,
          events, event_groups, behavioral_metrics, active_sessions, clock,
          http_status>>

(***************************************************************************)
(* Bounds of the model and constants of the program.                       *)
(***************************************************************************)
MaxCalls == 2

MaxAttempts == 3
MinChoices == 2
DupMinLen == 30
DupPrefixLen == 50
MistralPromptTail == 2
LlamaPromptTail == 3

Callers == {1, 2}
Stages == {"analytical", "social", "memory"}

(***************************************************************************)
(* Texts.                                                                  *)
(***************************************************************************)
Min(a, b) == IF a < b THEN a ELSE b
Max(a, b) == IF a > b THEN a ELSE b

Rep(c, n) == [i \in 1..n |-> c]

\* str.lower()
Lower(s) == [i \in 1..Len(s) |-> IF s[i] > 10 THEN s[i] - 10 ELSE s[i]]

\* s[:n]
Prefix(s, n) == SubSeq(s, 1, Min(n, Len(s)))

\* a in b, for two strings
Contains(b, a) ==
    /\ Len(a) <= Len(b)
    /\ \E i \in 0..(Len(b) - Len(a)) : SubSeq(b, i + 1, i + Len(a)) = a

IsPrefixOf(s, t) == Len(s) <= Len(t) /\ SubSeq(t, 1, Len(s)) = s

(***************************************************************************)
(* JSON values a generated object can carry: a string, a number, or a list *)
(* of which only the length is kept.                                       *)
(***************************************************************************)
JStr(s) == [type |-> "str", val |-> s]
JNum == [type |-> "num", val |-> << >>]
JList(n) == [type |-> "list", val |-> Rep(0, n)]

QuestionTexts ==
    { Rep(1, 2),                 \* short
      Rep(1, 31),                \* just over 30 characters
      Rep(11, 31),               \* the same in upper case
      Rep(1, 40) }               \* a longer text with the same beginning

QuestionValues == { JStr(s) : s \in QuestionTexts } \cup { JNum }

\* the text multiple_choice, and another type a reply can name
MultipleChoice == Rep(3, 15)
OtherType == Rep(4, 4)

(***************************************************************************)
(* Generated text.                                                         *)
(***************************************************************************)
LB == [t |-> "{", key |-> "", val |-> JNum]
RB == [t |-> "}", key |-> "", val |-> JNum]
PX == [t |-> "x", key |-> "", val |-> JNum]
Member(k, v) == [t |-> "m", key |-> k, val |-> v]

\* str.find: the 0-based index of the first occurrence, or -1
Find(text, ch) ==
    IF \E i \in 1..Len(text) : text[i].t = ch
    THEN (CHOOSE i \in 1..Len(text) :
            /\ text[i].t = ch
            /\ \A j \in 1..(i - 1) : text[j].t # ch) - 1
    ELSE -1

\* str.rfind: the 0-based index of the last occurrence, or -1
RFind(text, ch) ==
    IF \E i \in 1..Len(text) : text[i].t = ch
    THEN (CHOOSE i \in 1..Len(text) :
            /\ text[i].t = ch
            /\ \A j \in (i + 1)..Len(text) : text[j].t # ch) - 1
    ELSE -1

\* text[a:b] for 0 <= a and 0 <= b <= len(text)
Slice(text, a, b) == SubSeq(text, a + 1, b)

\* json.loads accepts the span: one object, members only between its braces
IsJsonObject(span) ==
    /\ Len(span) >= 2
    /\ span[1].t = "{"
    /\ span[Len(span)].t = "}"
    /\ \A i \in 2..(Len(span) - 1) : span[i].t = "m"

\* the dict json.loads builds: a repeated key keeps its last value
JsonLoads(span) ==
    LET keys == { span[i].key : i \in 2..(Len(span) - 1) }
        last(k) == CHOOSE i \in 2..(Len(span) - 1) :
                      /\ span[i].key = k
                      /\ \A j \in (i + 1)..(Len(span) - 1) : span[j].key # k
    IN [k \in keys |-> span[last(k)].val]

Ok(v) == [ok |-> TRUE, exc |-> "", val |-> v]
Raise(e) == [ok |-> FALSE, exc |-> e, val |-> << >>]


(***************************************************************************)
(* Exceptions.  Every exception the attempt body can raise is a subclass   *)
(* of Exception, which is what both handlers name.                         *)
(***************************************************************************)
ExceptionSubclasses ==
    { "ClientError", "TimeoutError", "Exception", "ValueError",
      "JSONDecodeError", "AttributeError", "TypeError" }

\* except Exception as e
CatchesValueErrorOnly(e) == e \in { "ValueError", "JSONDecodeError" }
Catches(e) == e \in ExceptionSubclasses

(***************************************************************************)
(* The inference call.                                                     *)
(***************************************************************************)
TransportError(e) == [kind |-> "exc", exc |-> e, status |-> 0, text |-> << >>]
HttpReply(st, txt) == [kind |-> "http", exc |-> "", status |-> st, text |-> txt]

\* _call_ollama, from the reply on: the "response" field of a 200 reply
CallOllama(reply) ==
    IF reply.kind = "exc" THEN Raise(reply.exc)
    ELSE IF reply.status # 200 THEN Raise("Exception")
    ELSE Ok(reply.text)

(***************************************************************************)
(* MistralAnalyzer: parsing a generated question.                          *)
(***************************************************************************)
Now == "now"

ParseQuestionResult(text, stage_name) ==
    LET start_idx == Find(text, "{")
        end_idx == RFind(text, "}") + 1
        json_str == Slice(text, start_idx, end_idx)
        parsed == JsonLoads(json_str)
    IN IF start_idx = -1 \/ end_idx = 0 THEN Raise("ValueError")
       ELSE IF ~IsJsonObject(json_str) THEN Raise("JSONDecodeError")
       ELSE IF "question" \notin DOMAIN parsed \/ "choices" \notin DOMAIN parsed
            THEN Raise("ValueError")
       ELSE IF parsed["choices"].type = "num" THEN Raise("TypeError")
       ELSE IF Len(parsed["choices"].val) < MinChoices THEN Raise("ValueError")
       ELSE Ok(("stage" :> stage_name) @@ ("generated_at" :> Now) @@ parsed)

(***************************************************************************)
(* MistralAnalyzer: the duplicate test.                                    *)
(***************************************************************************)
\* one round of the loop over previous_questions, for a string current_question:
\* "dup" returns True, "raise" is len() of a number, "next" goes on
DupStepPreviousNotLowered(current_question, prev_q) ==
    IF ~(Len(current_question) > DupMinLen) THEN "next"
    ELSE IF prev_q.type # "str" THEN "raise"
    ELSE IF ~(Len(prev_q.val) > DupMinLen) THEN "next"
    ELSE IF Contains(Prefix(prev_q.val, DupPrefixLen),
                     Prefix(current_question, DupPrefixLen))
         THEN "dup"
    ELSE "next"
DupStep(current_question, prev_q) ==
    IF ~(Len(current_question) > DupMinLen) THEN "next"
    ELSE IF prev_q.type # "str" THEN "raise"
    ELSE IF ~(Len(prev_q.val) > DupMinLen) THEN "next"
    ELSE IF Contains(Prefix(Lower(prev_q.val), DupPrefixLen),
                     Prefix(current_question, DupPrefixLen))
         THEN "dup"
    ELSE "next"


IsDuplicateQuestion(question_data, previous_questions) ==
    IF previous_questions = << >> THEN Ok(FALSE)
    ELSE IF question_data["question"].type # "str" THEN Raise("AttributeError")
    ELSE LET current_question == Lower(question_data["question"].val)
             decided == { i \in 1..Len(previous_questions) :
                            DupStep(current_question, previous_questions[i]) # "next" }
             first == CHOOSE i \in decided : \A j \in decided : i <= j
         IN IF decided = {} THEN Ok(FALSE)
            ELSE IF DupStep(current_question, previous_questions[first]) = "raise"
                 THEN Raise("TypeError")
            ELSE Ok(TRUE)

(***************************************************************************)
(* MistralAnalyzer: the question prompt.  Only the part that depends on    *)
(* the cache is kept: the count and the q[:80] of the last two questions.  *)
(***************************************************************************)
LastN(seq, n) == SubSeq(seq, Max(1, Len(seq) - n + 1), Len(seq))

BuildQuestionGenerationPrompt(stage_name, previous_questions) ==
    LET shown == LastN(previous_questions, MistralPromptTail)
    IN IF \E i \in 1..Len(shown) : shown[i].type # "str"
       THEN Raise("TypeError")
       ELSE Ok([stage |-> stage_name,
                count |-> Len(previous_questions),
                previous |-> [i \in 1..Len(shown) |-> Prefix(shown[i].val, 80)]])

(***************************************************************************)
(* MistralAnalyzer: the static fallback questions.                         *)
(***************************************************************************)
FallbackChoices == 4

MistralFallbackQuestions ==
    [analytical |-> [question |-> JStr(Rep(7, 88)), choices |-> JList(FallbackChoices)],
     creative   |-> [question |-> JStr(Rep(8, 73)), choices |-> JList(FallbackChoices)],
     social     |-> [question |-> JStr(Rep(9, 61)), choices |-> JList(FallbackChoices)]]

FallbackAlwaysAnalytical(stage_name) ==
    ("type" :> JStr(MultipleChoice)) @@ ("stage" :> stage_name)
        @@ ("generated_at" :> Now) @@ MistralFallbackQuestions["analytical"]

GenerateFallbackQuestion(stage_name) ==
    LET question_data ==
            IF stage_name \in DOMAIN MistralFallbackQuestions
            THEN MistralFallbackQuestions[stage_name]
            ELSE MistralFallbackQuestions["analytical"]
    IN ("type" :> JStr(MultipleChoice)) @@ ("stage" :> stage_name)
           @@ ("generated_at" :> Now) @@ question_data


(***************************************************************************)
(* LlamaAnalyzer.  Its generate_question is the same text as Mistral's,    *)
(* but the class defines no _is_duplicate_question: looking the method up  *)
(* raises AttributeError inside the attempt's try block.                   *)
(***************************************************************************)
LlamaParseQuestionResult(text, stage_name) ==
    LET start_idx == Find(text, "{")
        end_idx == RFind(text, "}") + 1
        json_str == Slice(text, start_idx, end_idx)
        parsed == JsonLoads(json_str)
    IN IF start_idx = -1 \/ end_idx = 0 THEN Raise("ValueError")
       ELSE IF ~IsJsonObject(json_str) THEN Raise("JSONDecodeError")
       ELSE IF "question" \notin DOMAIN parsed \/ "choices" \notin DOMAIN parsed
            THEN Raise("ValueError")
       ELSE IF parsed["choices"].type = "num" THEN Raise("TypeError")
       ELSE IF Len(parsed["choices"].val) < MinChoices THEN Raise("ValueError")
       ELSE Ok(("stage" :> stage_name) @@ ("generated_at" :> Now) @@ parsed)

LlamaIsDuplicateQuestion(question_data, previous_questions) ==
    Raise("AttributeError")

LlamaBuildQuestionGenerationPrompt(stage_name, previous_questions) ==
    LET shown == LastN(previous_questions, LlamaPromptTail)
    IN IF \E i \in 1..Len(shown) : shown[i].type # "str"
       THEN Raise("TypeError")
       ELSE Ok([stage |-> stage_name,
                count |-> Len(previous_questions),
                previous |-> [i \in 1..Len(shown) |-> Prefix(shown[i].val, 100)]])

LlamaFallbackQuestions ==
    [analytical |-> [question |-> JStr(Rep(17, 103)), choices |-> JList(FallbackChoices)],
     creative   |-> [question |-> JStr(Rep(18, 93)), choices |-> JList(FallbackChoices)],
     social     |-> [question |-> JStr(Rep(19, 90)), choices |-> JList(FallbackChoices)]]

LlamaGenerateFallbackQuestion(stage_name) ==
    LET question_data ==
            IF stage_name \in DOMAIN LlamaFallbackQuestions
            THEN LlamaFallbackQuestions[stage_name]
            ELSE LlamaFallbackQuestions["analytical"]
    IN ("type" :> JStr(MultipleChoice)) @@ ("stage" :> stage_name)
           @@ ("generated_at" :> Now) @@ question_data

(***************************************************************************)
(* generate_question.  A call runs without suspension from its start to    *)
(* the await of the inference call, and from the reply to the next await   *)
(* or to its return.                                                       *)
(***************************************************************************)
NoResult == [none |-> TRUE]

BuildPromptOf(an, stage_name, previous_questions) ==
    IF an = "llama"
    THEN LlamaBuildQuestionGenerationPrompt(stage_name, previous_questions)
    ELSE BuildQuestionGenerationPrompt(stage_name, previous_questions)

ParseQuestionOf(an, text, stage_name) ==
    IF an = "llama" THEN LlamaParseQuestionResult(text, stage_name)
    ELSE ParseQuestionResult(text, stage_name)

IsDuplicateOf(an, question_data, previous_questions) ==
    IF an = "llama" THEN LlamaIsDuplicateQuestion(question_data, previous_questions)
    ELSE IsDuplicateQuestion(question_data, previous_questions)

FallbackOf(an, stage_name) ==
    IF an = "llama" THEN LlamaGenerateFallbackQuestion(stage_name)
    ELSE GenerateFallbackQuestion(stage_name)

\* self.generated_questions[stage_name].append(question_data['question'])
AppendQuestionInFront(cache, stage_name, question) ==
    [cache EXCEPT ![stage_name] = <<question>> \o @]
ReplaceQuestions(cache, stage_name, question) ==
    [cache EXCEPT ![stage_name] = <<question>>]
AppendQuestionOnce(cache, stage_name, question) ==
    IF \E i \in 1..Len(cache[stage_name]) : cache[stage_name][i] = question
    THEN cache
    ELSE [cache EXCEPT ![stage_name] = Append(@, question)]
AppendQuestion(cache, stage_name, question) ==
    [cache EXCEPT ![stage_name] = Append(@, question)]

\* the rest of one attempt, from the reply of the inference call on
AttemptBody(an, reply, stage_name, previous_questions) ==
    LET called == CallOllama(reply)
        parsed == ParseQuestionOf(an, called.val, stage_name)
        dup == IsDuplicateOf(an, parsed.val, previous_questions)
        raised(e) == [kind |-> IF Catches(e) THEN "error" ELSE "escape",
                      question_data |-> NoResult]
    IN IF ~called.ok THEN raised(called.exc)
       ELSE IF ~parsed.ok THEN raised(parsed.exc)
       ELSE IF ~dup.ok THEN raised(dup.exc)
       ELSE IF ~dup.val THEN [kind |-> "accepted", question_data |-> parsed.val]
       ELSE [kind |-> "duplicate", question_data |-> NoResult]

\* lines 77-89: only an accepted question reaches the cache; a duplicate or
\* an error leaves it as it is
CacheAfterAttemptAddingFallback(cache, stage_name, body) ==
    IF body.kind = "accepted"
    THEN AppendQuestion(cache, stage_name, body.question_data["question"])
    ELSE AppendQuestion(cache, stage_name,
                        GenerateFallbackQuestion(stage_name)["question"])
CacheAfterAttempt(cache, stage_name, body) ==
    IF body.kind = "accepted"
    THEN AppendQuestion(cache, stage_name, body.question_data["question"])
    ELSE cache

\* the loop from the top of attempt att to the next await or the return
RECURSIVE LoopFrom(_, _, _, _, _, _)
LoopFrom(an, stage_name, previous_questions, att, outs, reqs) ==
    IF att >= MaxAttempts
    THEN [pc |-> "returned", attempt |-> att, requests |-> reqs, outcomes |-> outs,
          result |-> FallbackOf(an, stage_name)]
    ELSE LET prompt == BuildPromptOf(an, stage_name, previous_questions)
         IN IF prompt.ok
            THEN [pc |-> "awaiting", attempt |-> att, requests |-> reqs + 1,
                  outcomes |-> outs, result |-> NoResult,
                  question_prompt |-> prompt.val]
            ELSE IF Catches(prompt.exc)
            THEN LoopFrom(an, stage_name, previous_questions, att + 1,
                          Append(outs, "error"), reqs)
            ELSE [pc |-> "raised", attempt |-> att, requests |-> reqs,
                  outcomes |-> outs, result |-> NoResult]

SetCall(c, st) ==
    /\ pc' = [pc EXCEPT ![c] = st.pc]
    /\ attempt' = [attempt EXCEPT ![c] = st.attempt]
    /\ requests' = [requests EXCEPT ![c] = st.requests]
    /\ prompts' = [prompts EXCEPT ![c] =
                      IF st.pc = "awaiting" THEN Append(@, st.question_prompt)
                      ELSE @]
    /\ outcomes' = [outcomes EXCEPT ![c] = st.outcomes]
    /\ result' = [result EXCEPT ![c] = st.result]

\* lines 54-71: the call starts, creates the stage's list and reaches the await
GenStart(c, stage_name) ==
    /\ pc[c] = "idle"
    /\ callsMade < MaxCalls
    /\ callsMade' = callsMade + 1
    /\ stage' = [stage EXCEPT ![c] = stage_name]
    /\ generated_questions' =
           IF stage_name \in DOMAIN generated_questions THEN generated_questions
           ELSE (stage_name :> << >>) @@ generated_questions
    /\ SetCall(c, LoopFrom(analyzer, stage_name,
                           generated_questions'[stage_name], 0, << >>, 0))
    /\ UNCHANGED <<analyzer, svars, pvars, evars, avars>>

\* line 65: previous_questions names the stage's list itself, so after the
\* await it shows what other calls have appended meanwhile; a copy taken at
\* line 65 would show the list as it was when the prompt was built
PreviousQuestionsCopied(c) ==
    SubSeq(generated_questions[stage[c]], 1, prompts[c][Len(prompts[c])].count)
PreviousQuestionsOfAllStages(c) ==
    LET cached(s) == IF s \in DOMAIN generated_questions
                     THEN generated_questions[s] ELSE << >>
    IN cached("analytical") \o cached("social") \o cached("memory")
PreviousQuestions(c) == generated_questions[stage[c]]

\* lines 71-93: the inference call ends; the attempt is judged, and the call
\* returns or goes on to the next await
GenReply(c, reply) ==
    /\ pc[c] = "awaiting"
    /\ LET previous_questions == PreviousQuestions(c)
           body == AttemptBody(analyzer, reply, stage[c], previous_questions)
       IN CASE body.kind = "accepted" ->
                 /\ generated_questions' =
                        CacheAfterAttempt(generated_questions, stage[c], body)
                 /\ SetCall(c, [pc |-> "returned", attempt |-> attempt[c],
                                requests |-> requests[c],
                                outcomes |-> Append(outcomes[c], "accepted"),
                                result |-> body.question_data])
            [] body.kind = "escape" ->
                 /\ UNCHANGED generated_questions
                 /\ SetCall(c, [pc |-> "raised", attempt |-> attempt[c],
                                requests |-> requests[c], outcomes |-> outcomes[c],
                                result |-> NoResult])
            [] OTHER ->
                 /\ generated_questions' =
                        CacheAfterAttempt(generated_questions, stage[c], body)
                 /\ SetCall(c, LoopFrom(analyzer, stage[c], previous_questions,
                                        attempt[c] + 1,
                                        Append(outcomes[c], body.kind), requests[c]))
    /\ UNCHANGED <<analyzer, svars, pvars, evars, stage, callsMade, avars>>

\* the caller takes the returned question
GenCollect(c) ==
    /\ pc[c] \in {"returned", "raised"}
    /\ pc' = [pc EXCEPT ![c] = "idle"]
    /\ stage' = [stage EXCEPT ![c] = ""]
    /\ attempt' = [attempt EXCEPT ![c] = 0]
    /\ requests' = [requests EXCEPT ![c] = 0]
    /\ prompts' = [prompts EXCEPT ![c] = << >>]
    /\ outcomes' = [outcomes EXCEPT ![c] = << >>]
    /\ result' = [result EXCEPT ![c] = NoResult]
    /\ UNCHANGED <<analyzer, svars, pvars, evars, generated_questions, callsMade, avars>>

(***************************************************************************)
(* What the inference service can answer to a question prompt.             *)
(***************************************************************************)
QuestionObjects ==
    { <<Member("question", q), Member("choices", JList(2))>> : q \in QuestionValues }
    \cup { <<Member("question", JStr(Rep(1, 40)))>>,
           <<Member("choices", JList(2))>>,
           <<Member("question", JStr(Rep(1, 40))), Member("choices", JList(1))>>,
           <<Member("question", JStr(Rep(1, 40))), Member("choices", JList(4)),
             Member("type", JStr(MultipleChoice)), Member("stage", JStr(OtherType))>>,
           <<Member("question", JStr(Rep(1, 40))), Member("choices", JList(4)),
             Member("type", JStr(OtherType))>> }

QuestionResponses ==
    { <<LB>> \o m \o <<RB>> : m \in QuestionObjects }
    \cup { << >>, <<PX>>, <<RB, LB>>, <<LB, PX, RB>>,
           <<PX, LB, Member("question", JStr(Rep(1, 2))), Member("choices", JList(2)), RB, PX>>,
           <<LB, Member("question", JStr(Rep(1, 2))), Member("choices", JList(2)), RB, PX, RB>> }

QuestionReplies ==
    { HttpReply(200, t) : t \in QuestionResponses }
    \cup { HttpReply(500, << >>), TransportError("ClientError"),
           TransportError("TimeoutError") }

\* no session has been started
InitSessionsIdle ==
    /\ active_sessions = [id \in {} |-> << >>]
    /\ clock = 0
    /\ http_status = 0

\* no text has been parsed and no events have been processed
InitParseIdle ==
    /\ ptext = << >>
    /\ panalysis = NoResult
    /\ pquestion = NoResult

InitEventsIdle ==
    /\ events = << >>
    /\ event_groups = NoResult
    /\ behavioral_metrics = NoResult

InitAnalysisIdle ==
    /\ InitParseIdle
    /\ InitEventsIdle
    /\ apc = "idle"
    /\ behavioral_data = << >>
    /\ aresponse = NoResult
    /\ aresult = NoResult
    /\ apath = "none"
    /\ modulesLoaded = TRUE
    /\ profile = NoResult

InitQuestions ==
    /\ generated_questions = [s \in {} |-> << >>]
    /\ pc = [c \in Callers |-> "idle"]
    /\ stage = [c \in Callers |-> ""]
    /\ attempt = [c \in Callers |-> 0]
    /\ requests = [c \in Callers |-> 0]
    /\ prompts = [c \in Callers |-> << >>]
    /\ outcomes = [c \in Callers |-> << >>]
    /\ result = [c \in Callers |-> NoResult]
    /\ callsMade = 0

Init ==
    /\ analyzer = "mistral"
    /\ InitQuestions
    /\ InitSessionsIdle
    /\ InitAnalysisIdle

Next ==
    \/ \E c \in Callers, s \in Stages : GenStart(c, s)
    \/ \E c \in Callers, r \in QuestionReplies : GenReply(c, r)
    \/ \E c \in Callers : GenCollect(c)

Spec == Init /\ [][Next]_vars

InitLlama ==
    /\ analyzer = "llama"
    /\ InitQuestions
    /\ InitSessionsIdle
    /\ InitAnalysisIdle

SpecLlama == InitLlama /\ [][Next]_vars


(***************************************************************************)
(* Floats.  A float is a number in thousandths or NaN; a comparison with   *)
(* NaN is false, which is what decides min() and max().                    *)
(***************************************************************************)
Num(n) == [type |-> "num", v |-> n]
NaN == [type |-> "nan", v |-> 0]
NonNumeric == [type |-> "str", v |-> 0]

FloatLt(a, b) == a.type = "num" /\ b.type = "num" /\ a.v < b.v

\* min(a, b) and max(a, b) of two floats: a unless b is strictly beyond it
PyMin(a, b) == IF FloatLt(b, a) THEN b ELSE a
PyMax(a, b) == IF FloatLt(a, b) THEN b ELSE a

\* float(score) for a JSON number; a string that is no number raises
ToFloat(x) == IF x.type = "str" THEN Raise("ValueError") ELSE Ok(x)

\* max(lo, min(hi, x))
ClampUpperOnly(lo, hi, x) == PyMin(hi, x)
ClampLowerOnly(lo, hi, x) == PyMax(lo, x)
Clamp(lo, hi, x) == PyMax(lo, PyMin(hi, x))

(***************************************************************************)
(* MistralAnalyzer: parsing an analysis and the behavioural fallback.      *)
(***************************************************************************)
AbilityKeys == {"analytical", "creative", "social", "technical", "research"}
RequiredKeysWithoutInsights == {"ability_scores", "confidence"}
RequiredKeys == {"ability_scores", "confidence", "insights"}

ScoreMax == 100000
ConfidenceMax == 1000
FallbackConfidence == 600
MetricDefault == 500

ParseAnalysisResult(text) ==
    LET start_idx == Find(text, "{")
        end_idx == RFind(text, "}") + 1
        json_str == Slice(text, start_idx, end_idx)
        parsed == JsonLoads(json_str)
        scores == parsed["ability_scores"]
    IN IF start_idx = -1 \/ end_idx = 0 THEN Raise("ValueError")
       ELSE IF ~IsJsonObject(json_str) THEN Raise("JSONDecodeError")
       ELSE IF ~(RequiredKeys \subseteq DOMAIN parsed) THEN Raise("ValueError")
       ELSE IF ~(AbilityKeys \subseteq DOMAIN scores) THEN Raise("ValueError")
       ELSE IF \E a \in AbilityKeys : ~ToFloat(scores[a]).ok THEN Raise("ValueError")
       ELSE IF ~ToFloat(parsed["confidence"]).ok THEN Raise("ValueError")
       ELSE Ok([k \in DOMAIN parsed |->
                  IF k = "ability_scores"
                  THEN [a \in DOMAIN scores |->
                          IF a \in AbilityKeys
                          THEN Clamp(Num(0), Num(ScoreMax), ToFloat(scores[a]).val)
                          ELSE scores[a]]
                  ELSE IF k = "confidence"
                  THEN Clamp(Num(0), Num(ConfidenceMax), ToFloat(parsed[k]).val)
                  ELSE parsed[k]])

\* dict.get(key, default)
Get(d, key, default) == IF key \in DOMAIN d THEN d[key] ELSE default

FallbackAnalysisUnscaled(data) ==
    [ability_scores |->
        [analytical |-> Num(Get(data, "logic_score", MetricDefault)),
         creative   |-> Num(Get(data, "creativity_score", MetricDefault)),
         social     |-> Num(Get(data, "social_score", MetricDefault)),
         technical  |-> Num(Get(data, "technical_score", MetricDefault)),
         research   |-> Num(Get(data, "exploration_score", MetricDefault))],
     confidence |-> Num(FallbackConfidence),
     insights |-> JList(2)]

GenerateFallbackAnalysis(data) ==
    [ability_scores |->
        [analytical |-> Num(Get(data, "logic_score", MetricDefault) * 100),
         creative   |-> Num(Get(data, "creativity_score", MetricDefault) * 100),
         social     |-> Num(Get(data, "social_score", MetricDefault) * 100),
         technical  |-> Num(Get(data, "technical_score", MetricDefault) * 100),
         research   |-> Num(Get(data, "exploration_score", MetricDefault) * 100)],
     confidence |-> Num(FallbackConfidence),
     insights |-> JList(2)]

(***************************************************************************)
(* LlamaAnalyzer: the same parser and fallback, in its own file.           *)
(***************************************************************************)
LlamaParseAnalysisResult(text) ==
    LET start_idx == Find(text, "{")
        end_idx == RFind(text, "}") + 1
        json_str == Slice(text, start_idx, end_idx)
        parsed == JsonLoads(json_str)
        scores == parsed["ability_scores"]
    IN IF start_idx = -1 \/ end_idx = 0 THEN Raise("ValueError")
       ELSE IF ~IsJsonObject(json_str) THEN Raise("JSONDecodeError")
       ELSE IF ~(RequiredKeys \subseteq DOMAIN parsed) THEN Raise("ValueError")
       ELSE IF ~(AbilityKeys \subseteq DOMAIN scores) THEN Raise("ValueError")
       ELSE IF \E a \in AbilityKeys : ~ToFloat(scores[a]).ok THEN Raise("ValueError")
       ELSE IF ~ToFloat(parsed["confidence"]).ok THEN Raise("ValueError")
       ELSE Ok([k \in DOMAIN parsed |->
                  IF k = "ability_scores"
                  THEN [a \in DOMAIN scores |->
                          IF a \in AbilityKeys
                          THEN Clamp(Num(0), Num(ScoreMax), ToFloat(scores[a]).val)
                          ELSE scores[a]]
                  ELSE IF k = "confidence"
                  THEN Clamp(Num(0), Num(ConfidenceMax), ToFloat(parsed[k]).val)
                  ELSE parsed[k]])

LlamaGenerateFallbackAnalysis(data) ==
    [ability_scores |->
        [analytical |-> Num(Get(data, "logic_score", MetricDefault) * 100),
         creative   |-> Num(Get(data, "creativity_score", MetricDefault) * 100),
         social     |-> Num(Get(data, "social_score", MetricDefault) * 100),
         technical  |-> Num(Get(data, "technical_score", MetricDefault) * 100),
         research   |-> Num(Get(data, "exploration_score", MetricDefault) * 100)],
     confidence |-> Num(FallbackConfidence),
     insights |-> JList(2)]

(***************************************************************************)
(* analyze_responses: one inference call, then the parser, and the         *)
(* fallback for whatever either of them raises.                            *)
(***************************************************************************)
AnalyzeResponses(an, reply, data) ==
    LET called == CallOllama(reply)
        parsed == IF an = "llama" THEN LlamaParseAnalysisResult(called.val)
                  ELSE ParseAnalysisResult(called.val)
        fallback == IF an = "llama" THEN LlamaGenerateFallbackAnalysis(data)
                    ELSE GenerateFallbackAnalysis(data)
        handled(e) == IF Catches(e)
                      THEN [pc |-> "returned", path |-> "fallback", val |-> fallback]
                      ELSE [pc |-> "raised", path |-> "none", val |-> NoResult]
    IN IF ~called.ok THEN handled(called.exc)
       ELSE IF ~parsed.ok THEN handled(parsed.exc)
       ELSE [pc |-> "returned", path |-> "parsed", val |-> parsed.val]

\* the prompt is built and the request is sent: the await of _call_ollama
AnalyzeStart(data) ==
    /\ apc = "idle"
    /\ modulesLoaded
    /\ apc' = "awaiting"
    /\ behavioral_data' = data
    /\ UNCHANGED <<analyzer, svars, pvars, evars, qvars, aresponse, aresult, apath, modulesLoaded, profile>>

\* the inference call ends and analyze_responses returns
AnalyzeReply(reply) ==
    /\ apc = "awaiting"
    /\ LET done == AnalyzeResponses(analyzer, reply, behavioral_data)
       IN /\ apc' = done.pc
          /\ apath' = done.path
          /\ aresult' = done.val
    /\ aresponse' = reply
    /\ UNCHANGED <<analyzer, svars, pvars, evars, qvars, behavioral_data, modulesLoaded, profile>>

(***************************************************************************)
(* app_working.py: combine_analysis_results and the analyze endpoint.      *)
(***************************************************************************)
MockConfidence == 850
ErrorConfidence == 600
DefaultConfidence == 750
DefaultModelScore == 50000

\* round(x, 1) of x given in ten-thousandths, to thousandths; a tie goes to
\* the even tenth
RoundToTenth(x) ==
    LET q == x \div 1000
        r == x % 1000
    IN IF r < 500 THEN q * 100
       ELSE IF r > 500 THEN (q + 1) * 100
       ELSE IF q % 2 = 0 THEN q * 100 ELSE (q + 1) * 100

BehavioralKey ==
    [analytical |-> "logic_score", creative |-> "creativity_score",
     social |-> "social_score", technical |-> "technical_score",
     research |-> "exploration_score"]

CombineAnalysisResults(metrics, analysis) ==
    LET model_scores == Get(analysis, "ability_scores", << >>)
        behavioral_val(a) == Get(metrics, BehavioralKey[a], MetricDefault) * 100
        model_val(a) == Get(model_scores, a, Num(DefaultModelScore)).v
    IN [scores |-> [a \in AbilityKeys |->
                       RoundToTenth(6 * model_val(a) + 4 * behavioral_val(a))],
        confidence |-> Get(analysis, "confidence", Num(DefaultConfidence)).v,
        insights |-> Get(analysis, "insights", JList(1))]

MockProfile ==
    [scores |-> [analytical |-> 75500, creative |-> 68200, social |-> 45000,
                 technical |-> 82100, research |-> 71800],
     confidence |-> MockConfidence,
     insights |-> JList(3)]

ErrorProfile ==
    [scores |-> [analytical |-> 70000, creative |-> 65000, social |-> 55000,
                 technical |-> 75000, research |-> 68000],
     confidence |-> ErrorConfidence,
     insights |-> JList(3)]

\* lines 136-150: the modules are not loaded and the endpoint answers at once
WorkingMock ==
    /\ analyzer = "llama"
    /\ apc = "idle"
    /\ ~modulesLoaded
    /\ apc' = "done"
    /\ profile' = [via |-> "mock", body |-> MockProfile]
    /\ UNCHANGED <<analyzer, svars, pvars, evars, qvars, behavioral_data, aresponse, aresult, apath,
                   modulesLoaded>>

\* lines 166-199: the analysis is combined with the metrics and formatted by
\* format_results_for_display, a module outside these sources, which returns
\* or raises; whatever the try block raises ends in the fixed profile
WorkingFinish(formatted) ==
    /\ analyzer = "llama"
    /\ apc = "returned"
    /\ apc' = "done"
    /\ profile' =
          IF formatted
          THEN [via |-> apath,
                body |-> CombineAnalysisResults(behavioral_data, aresult)]
          ELSE [via |-> "error", body |-> ErrorProfile]
    /\ UNCHANGED <<analyzer, svars, pvars, evars, qvars, behavioral_data, aresponse, aresult, apath,
                   modulesLoaded>>

(***************************************************************************)
(* What the analysis is given and what the inference service can answer.   *)
(***************************************************************************)
BehavioralInputs ==
    { [k \in {"logic_score", "creativity_score", "social_score",
              "technical_score", "exploration_score"} |-> 500],
      [logic_score |-> 800, creativity_score |-> 700],
      [logic_score |-> 0, creativity_score |-> 1000, social_score |-> 650,
       technical_score |-> 333, exploration_score |-> 250] }

ScoreValues == { Num(-5000), Num(75500), Num(150000), NaN, NonNumeric }
ConfidenceValues == { Num(-100), Num(850), Num(7000), NaN, NonNumeric }
\* one ability carries v and the other four carry w
ScoreMaps ==
    { [a \in AbilityKeys |-> IF a = k THEN v ELSE w] :
        k \in AbilityKeys, v \in ScoreValues, w \in ScoreValues }
MalformedShapes ==
    { "no_braces", "empty", "not_json", "brace_after", "no_confidence",
      "no_insights", "no_scores", "no_research" }

AnalysisText(shape, scores, confidence) ==
    LET sc == Member("ability_scores", scores)
        cf == Member("confidence", confidence)
        ins == Member("insights", JList(2))
    IN CASE shape = "object" -> <<LB, sc, cf, ins, RB>>
         [] shape = "prose_around" -> <<PX, LB, sc, cf, ins, RB, PX>>
         [] shape = "no_braces" -> <<PX, PX>>
         [] shape = "empty" -> << >>
         [] shape = "not_json" -> <<LB, PX, RB>>
         [] shape = "brace_after" -> <<LB, sc, cf, ins, RB, PX, RB>>
         [] shape = "no_confidence" -> <<LB, sc, ins, RB>>
         [] shape = "no_insights" -> <<LB, sc, cf, RB>>
         [] shape = "no_scores" -> <<LB, cf, ins, RB>>
         [] shape = "no_research" ->
               <<LB, Member("ability_scores",
                            [a \in AbilityKeys \ {"research"} |-> scores[a]]),
                 cf, ins, RB>>

InitAnalyze ==
    /\ analyzer \in {"mistral", "llama"}
    /\ InitQuestions
    /\ InitSessionsIdle
    /\ InitParseIdle
    /\ InitEventsIdle
    /\ apc = "idle"
    /\ behavioral_data = << >>
    /\ aresponse = NoResult
    /\ aresult = NoResult
    /\ apath = "none"
    /\ modulesLoaded \in IF analyzer = "llama" THEN BOOLEAN ELSE {TRUE}
    /\ profile = NoResult

NextAnalyze ==
    \/ \E data \in BehavioralInputs : AnalyzeStart(data)
    \/ /\ apc = "awaiting"
       /\ \E shape \in {"object", "prose_around"}, scores \in ScoreMaps,
             confidence \in ConfidenceValues :
             AnalyzeReply(HttpReply(200, AnalysisText(shape, scores, confidence)))
    \/ \E shape \in MalformedShapes :
          AnalyzeReply(HttpReply(200,
              AnalysisText(shape, [a \in AbilityKeys |-> Num(75500)], Num(850))))
    \/ AnalyzeReply(HttpReply(500, << >>))
    \/ \E e \in {"ClientError", "TimeoutError"} : AnalyzeReply(TransportError(e))
    \/ WorkingMock
    \/ \E formatted \in BOOLEAN : WorkingFinish(formatted)

SpecAnalyze == InitAnalyze /\ [][NextAnalyze]_vars

(***************************************************************************)
(* app.py: combine_analysis_results, and the function on its own: the      *)
(* metrics and the analysis are drawn, and the function is applied.        *)
(***************************************************************************)
AppDefaultConfidence == 750
AppDefaultModelScore == 50000

AppBehavioralKey ==
    [analytical |-> "logic_score", creative |-> "creativity_score",
     social |-> "social_score", technical |-> "technical_score",
     research |-> "exploration_score"]

AppCombineEqualWeights(metrics, analysis) ==
    LET mistral_scores == Get(analysis, "ability_scores", << >>)
        behavioral_val(a) == Get(metrics, AppBehavioralKey[a], MetricDefault) * 100
        mistral_val(a) == Get(mistral_scores, a, Num(AppDefaultModelScore)).v
    IN [scores |-> [a \in AbilityKeys |->
                       RoundToTenth(5 * mistral_val(a) + 5 * behavioral_val(a))],
        confidence |-> Get(analysis, "confidence", Num(AppDefaultConfidence)).v,
        insights |-> Get(analysis, "insights", JList(0))]
AppCombineAnalysisResults(metrics, analysis) ==
    LET mistral_scores == Get(analysis, "ability_scores", << >>)
        behavioral_val(a) == Get(metrics, AppBehavioralKey[a], MetricDefault) * 100
        mistral_val(a) == Get(mistral_scores, a, Num(AppDefaultModelScore)).v
    IN [scores |-> [a \in AbilityKeys |->
                       RoundToTenth(6 * mistral_val(a) + 4 * behavioral_val(a))],
        confidence |-> Get(analysis, "confidence", Num(AppDefaultConfidence)).v,
        insights |-> Get(analysis, "insights", JList(0))]

\* line 158: profile = combine_analysis_results(behavioral_metrics, mistral_analysis)
AppCombine ==
    /\ analyzer = "mistral"
    /\ apc = "returned"
    /\ apc' = "done"
    /\ profile' = [via |-> apath,
                   body |-> AppCombineAnalysisResults(behavioral_data, aresult)]
    /\ UNCHANGED <<analyzer, svars, pvars, evars, qvars, behavioral_data, aresponse,
                   aresult, apath, modulesLoaded>>

MetricKeys ==
    {"logic_score", "creativity_score", "social_score", "technical_score",
     "exploration_score"}
MetricValues == {0, 333, 500, 800, 1000}
\* metrics in which the keys of one set carry v, and the other keys are absent
MetricInputs ==
    { [k \in present |-> v] :
        present \in {MetricKeys, {"logic_score", "creativity_score"},
                     {"exploration_score"}, {}},
        v \in MetricValues }

ModelValues == {0, 45250, 75500, 90000, 100000}
\* analyses in which the abilities of one set carry v
AnalysisInputs ==
    { [ability_scores |-> [a \in present |-> Num(v)],
       confidence |-> Num(850), insights |-> JList(2)] :
        present \in {AbilityKeys, {"analytical", "creative"}, {"research"}, {}},
        v \in ModelValues }
    \cup { [confidence |-> Num(600)] }

InitCombine ==
    /\ analyzer = "mistral"
    /\ InitQuestions
    /\ InitSessionsIdle
    /\ InitParseIdle
    /\ InitEventsIdle
    /\ apc = "returned"
    /\ behavioral_data \in MetricInputs
    /\ aresponse = NoResult
    /\ aresult \in AnalysisInputs
    /\ apath = "parsed"
    /\ modulesLoaded = TRUE
    /\ profile = NoResult

NextCombine == AppCombine

SpecCombine == InitCombine /\ [][NextCombine]_vars

(***************************************************************************)
(* The two parsers of MistralAnalyzer on their own: a generated text is    *)
(* drawn, and each parser is applied to it.  A text is written as the list *)
(* of the names of its tokens.                                             *)
(***************************************************************************)
MaxLeading == 1
MaxTrailing == 2

TokenOf(name) ==
    CASE name = "{" -> LB
      [] name = "}" -> RB
      [] name = "x" -> PX
      [] name = "scores" ->
            Member("ability_scores", [a \in AbilityKeys |-> Num(75500)])
      [] name = "scores4" ->
            Member("ability_scores",
                   [a \in AbilityKeys \ {"research"} |-> Num(75500)])
      [] name = "confidence" -> Member("confidence", Num(850))
      [] name = "insights" -> Member("insights", JList(2))
      [] name = "question" -> Member("question", JStr(Rep(1, 40)))
      [] name = "choices0" -> Member("choices", JList(0))
      [] name = "choices1" -> Member("choices", JList(1))
      [] name = "choices2" -> Member("choices", JList(2))

TextOf(names) == [i \in 1..Len(names) |-> TokenOf(names[i])]

SeqsUpTo(S, n) == UNION { [1..k -> S] : k \in 0..n }

\* the members between the braces of a generated object
MemberLists ==
    { sc \o cf \o ins :
        sc \in {<< >>, <<"scores">>, <<"scores4">>},
        cf \in {<< >>, <<"confidence">>},
        ins \in {<< >>, <<"insights">>} }
    \cup { q \o ch :
        q \in {<< >>, <<"question">>},
        ch \in {<< >>, <<"choices0">>, <<"choices1">>, <<"choices2">>} }
    \cup { <<"x">> }

ParseTexts ==
    { pre \o body \o post :
        pre \in SeqsUpTo({"x", "}"}, MaxLeading),
        body \in {<< >>} \cup { <<"{">> \o m \o c :
                                  m \in MemberLists, c \in {<< >>, <<"}">>} },
        post \in SeqsUpTo({"x", "}", "{"}, MaxTrailing) }

\* _parse_analysis_result(mistral_response)
ParseAnalysisText ==
    /\ ptext # << >>
    /\ panalysis = NoResult
    /\ panalysis' = ParseAnalysisResult(TextOf(ptext))
    /\ UNCHANGED <<analyzer, svars, qvars, avars, evars, ptext, pquestion>>

\* _parse_question_result(mistral_response, stage_name)
ParseQuestionText(stage_name) ==
    /\ ptext # << >>
    /\ pquestion = NoResult
    /\ pquestion' = ParseQuestionResult(TextOf(ptext), stage_name)
    /\ UNCHANGED <<analyzer, svars, qvars, avars, evars, ptext, panalysis>>

InitParse ==
    /\ analyzer = "mistral"
    /\ InitQuestions
    /\ InitSessionsIdle
    /\ InitEventsIdle
    /\ apc = "idle"
    /\ behavioral_data = << >>
    /\ aresponse = NoResult
    /\ aresult = NoResult
    /\ apath = "none"
    /\ modulesLoaded = TRUE
    /\ profile = NoResult
    /\ ptext \in ParseTexts \ {<< >>}
    /\ panalysis = NoResult
    /\ pquestion = NoResult

NextParse ==
    \/ ParseAnalysisText
    \/ \E s \in Stages : ParseQuestionText(s)

SpecParse == InitParse /\ [][NextParse]_vars

(***************************************************************************)
(* Numbers of the behavioural processor.  A timestamp is a whole number of *)
(* tenths of a second.  A metric is an exact fraction n/d in lowest terms  *)
(* with d > 0.                                                             *)
(***************************************************************************)
RECURSIVE GCD(_, _)
GCD(a, b) == IF b = 0 THEN a ELSE GCD(b, a % b)

Abs(x) == IF x < 0 THEN -x ELSE x

Rat(n, d) ==
    LET g == GCD(Abs(n), d)
    IN [n |-> n \div g, d |-> d \div g]

RAdd(a, b) ==
    LET g == GCD(a.d, b.d)
    IN Rat(a.n * (b.d \div g) + b.n * (a.d \div g), (a.d \div g) * b.d)
RNeg(a) == [n |-> -a.n, d |-> a.d]
RSub(a, b) == RAdd(a, RNeg(b))
RMul(a, b) == Rat(a.n * b.n, a.d * b.d)
\* a / k for a whole number k > 0
RDivInt(a, k) == Rat(a.n, a.d * k)
RLt(a, b) ==
    LET g == GCD(a.d, b.d)
    IN a.n * (b.d \div g) < b.n * (a.d \div g)
RMin(a, b) == IF RLt(b, a) THEN b ELSE a
RMax(a, b) == IF RLt(a, b) THEN b ELSE a
\* max(0.0, min(1.0, x))
Clamp01(x) == RMax(Rat(0, 1), RMin(Rat(1, 1), x))

RECURSIVE SumSeq(_)
SumSeq(seq) == IF seq = << >> THEN 0 ELSE seq[1] + SumSeq(Tail(seq))

RECURSIVE RSumSeq(_)
RSumSeq(seq) == IF seq = << >> THEN Rat(0, 1) ELSE RAdd(seq[1], RSumSeq(Tail(seq)))

\* np.mean of a non-empty list of fractions
RMean(seq) == RDivInt(RSumSeq(seq), Len(seq))

\* list.sort of whole numbers
RECURSIVE InsertSorted(_, _)
InsertSorted(x, seq) ==
    IF seq = << >> THEN <<x>>
    ELSE IF x < seq[1] THEN <<x>> \o seq
    ELSE <<seq[1]>> \o InsertSorted(x, Tail(seq))

RECURSIVE Sorted(_)
Sorted(seq) == IF seq = << >> THEN << >> ELSE InsertSorted(seq[1], Sorted(Tail(seq)))

\* the differences of neighbours of a list
Diffs(seq) == [i \in 1..(Len(seq) - 1) |-> seq[i + 1] - seq[i]]

\* the entries of a list that lie strictly between lo and hi
Between(seq, lo, hi) == SelectSeq(seq, LAMBDA x : lo < x /\ x < hi)

\* np.log2 of a small whole number, in thousandths
Log2Milli == <<0, 1000, 1585, 2000, 2322, 2585, 2807, 3000>>

(***************************************************************************)
(* BehavioralDataProcessor.  An event dictionary has up to three keys; a   *)
(* timestamp is a number or, malformed, a string; data is a dictionary of  *)
(* small codes or, malformed, null.                                        *)
(***************************************************************************)
ReactionMin == 1            \* 0.1 s
ReactionMax == 100          \* 10.0 s
MinChoiceEvents == 3
MouseMin == 10
ScreenWidth == 1920
ScreenHeight == 1080
RecoveryWindow == 300       \* 30 s
IntervalMax == 600          \* 60 s
VarietyFull == 3

NoKeys == [k \in {} |-> 0]
AbsentField == [kind |-> "absent", v |-> 0]
StrField(sv) == [kind |-> "str", v |-> sv]
NumField(n) == [kind |-> "num", v |-> n]
StrTimestamp(code) == [kind |-> "str", v |-> code]
DictField(d) == [kind |-> "dict", v |-> d]
NullField == [kind |-> "null", v |-> NoKeys]
AbsentData == [kind |-> "absent", v |-> NoKeys]
AbsentType == [kind |-> "absent", v |-> ""]

EventDict(event_type, timestamp, data) ==
    [event_type |-> event_type, timestamp |-> timestamp, data |-> data]

\* lines 40-44: GameEvent(event_type=d.get('event_type', ''), ...)
GameEventOf(event_dict) ==
    [event_type |-> IF event_dict.event_type.kind = "absent" THEN ""
                    ELSE event_dict.event_type.v,
     timestamp |-> IF event_dict.timestamp.kind = "absent" THEN NumField(0)
                   ELSE event_dict.timestamp,
     data |-> IF event_dict.data.kind = "absent" THEN DictField(NoKeys)
              ELSE event_dict.data]

\* event_groups.get(event_type, []): the events of one type in arrival order
GroupEventsNewestFirst(processed_events) ==
    [t \in { processed_events[i].event_type : i \in 1..Len(processed_events) } |->
        LET g == SelectSeq(processed_events, LAMBDA e : e.event_type = t)
        IN [i \in 1..Len(g) |-> g[Len(g) + 1 - i]]]
GroupEventsByType(processed_events) ==
    [t \in { processed_events[i].event_type : i \in 1..Len(processed_events) } |->
        SelectSeq(processed_events, LAMBDA e : e.event_type = t)]

Timestamps(evs) == [i \in 1..Len(evs) |-> evs[i].timestamp.v]
HasStrTimestamp(evs) == \E i \in 1..Len(evs) : evs[i].timestamp.kind = "str"
HasNullData(evs) == \E i \in 1..Len(evs) : evs[i].data.kind = "null"

\* event.data.get(key, default), for data that is a dictionary
DataGet(e, key, default) == Get(e.data.v, key, default)

CalculateReactionTimes(groups) ==
    LET of(t) == Get(groups, t, << >>)
        times(t) == Between(Diffs(Timestamps(of(t))), ReactionMin, ReactionMax)
        reaction_times == times("click") \o times("choice") \o times("keypress")
        avg_time == Rat(SumSeq(reaction_times), 10 * Len(reaction_times))
    IN IF \E t \in {"click", "choice", "keypress"} :
             Len(of(t)) >= 2 /\ HasStrTimestamp(of(t))
       THEN Raise("TypeError")
       ELSE IF reaction_times = << >> THEN Ok(Rat(1, 2))
       ELSE Ok(Clamp01(RSub(Rat(1, 1),
                            RDivInt(RSub(avg_time, Rat(1, 2)), 3))))

RECURSIVE SumFn(_)
SumFn(f) ==
    IF DOMAIN f = {} THEN 0
    ELSE LET k == CHOOSE k \in DOMAIN f : TRUE
         IN f[k] + SumFn([j \in DOMAIN f \ {k} |-> f[j]])

CalculateDecisionConsistency(groups) ==
    LET choice_events == Get(groups, "choice", << >>)
        choice_patterns == [i \in 1..Len(choice_events) |->
                               DataGet(choice_events[i], "choice_category", 0)]
        total == Len(choice_patterns)
        pattern_counts ==
            [c \in { choice_patterns[i] : i \in 1..total } |->
                Cardinality({ i \in 1..total : choice_patterns[i] = c })]
        kinds == Cardinality(DOMAIN pattern_counts)
        \* total * entropy and max_entropy, in thousandths
        total_entropy == total * Log2Milli[total]
                         - SumFn([c \in DOMAIN pattern_counts |->
                                    pattern_counts[c] * Log2Milli[pattern_counts[c]]])
        max_entropy == Log2Milli[kinds]
    IN IF Len(choice_events) < MinChoiceEvents THEN Ok(Rat(1, 2))
       ELSE IF HasNullData(choice_events) THEN Raise("AttributeError")
       ELSE IF kinds = 1 THEN Ok(Rat(8, 10))
       ELSE Ok(Clamp01(RSub(Rat(1, 1), Rat(total_entropy, total * max_entropy))))

SetMax(S) == CHOOSE x \in S : \A y \in S : y <= x
SetMin(S) == CHOOSE x \in S : \A y \in S : x <= y

CalculateExplorationPatterns(groups) ==
    LET mouse_events == Get(groups, "mouse_move", << >>)
        choice_events == Get(groups, "choice", << >>)
        x_coords == { DataGet(mouse_events[i], "x", 0) : i \in 1..Len(mouse_events) }
        y_coords == { DataGet(mouse_events[i], "y", 0) : i \in 1..Len(mouse_events) }
        x_range == SetMax(x_coords) - SetMin(x_coords)
        y_range == SetMax(y_coords) - SetMin(y_coords)
        coverage == Rat(x_range * y_range, ScreenWidth * ScreenHeight)
        after_mouse ==
            IF Len(mouse_events) > MouseMin
            THEN RMax(Rat(1, 2), RMin(Rat(1, 1), RMul(coverage, Rat(2, 1))))
            ELSE Rat(1, 2)
        unique_choices ==
            Cardinality({ DataGet(choice_events[i], "choice", 0) :
                            i \in 1..Len(choice_events) })
        choice_diversity == Rat(unique_choices, Len(choice_events))
        exploration_score ==
            IF choice_events # << >>
            THEN RDivInt(RAdd(after_mouse, choice_diversity), 2)
            ELSE after_mouse
    IN IF HasNullData(mouse_events) \/ HasNullData(choice_events)
       THEN Raise("AttributeError")
       ELSE Ok(Clamp01(exploration_score))

IntervalMin == 1            \* 0.1 s

\* lines 189-190, one candidate e against one error event: the comparison
\* of a string with a number raises, and so does error_time + 30 for a
\* string error_time, which is evaluated when e.timestamp > error_time
CandidateRaises(e, error_event) ==
    \/ e.timestamp.kind # error_event.timestamp.kind
    \/ /\ e.timestamp.kind = "str"
       /\ e.timestamp.v > error_event.timestamp.v

IsSubsequentInclusive(e, error_event) ==
    /\ e.timestamp.v >= error_event.timestamp.v
    /\ e.timestamp.v <= error_event.timestamp.v + RecoveryWindow
IsSubsequent(e, error_event) ==
    /\ e.timestamp.v > error_event.timestamp.v
    /\ e.timestamp.v < error_event.timestamp.v + RecoveryWindow

RecoveryScore(error_event, candidates) ==
    LET subsequent_events ==
            SelectSeq(candidates, LAMBDA e : IsSubsequent(e, error_event))
        recovery_time ==
            SetMin({ subsequent_events[i].timestamp.v - error_event.timestamp.v :
                       i \in 1..Len(subsequent_events) })
    IN IF subsequent_events # << >>
       THEN RMax(Rat(0, 1), RSub(Rat(1, 1), Rat(recovery_time, RecoveryWindow)))
       ELSE Rat(2, 10)

ErrorRecoveryNeutralHalf(groups) ==
    LET error_events == Get(groups, "error", << >>)
        candidates == Get(groups, "choice", << >>) \o Get(groups, "click", << >>)
        recovery_scores == [i \in 1..Len(error_events) |->
                               RecoveryScore(error_events[i], candidates)]
    IN IF error_events = << >> THEN Ok(Rat(1, 2))
       ELSE IF \E i \in 1..Len(error_events), j \in 1..Len(candidates) :
                  CandidateRaises(candidates[j], error_events[i])
       THEN Raise("TypeError")
       ELSE Ok(RMean(recovery_scores))
CalculateErrorRecovery(groups) ==
    LET error_events == Get(groups, "error", << >>)
        candidates == Get(groups, "choice", << >>)
                      \o Get(groups, "click", << >>)
        recovery_scores == [i \in 1..Len(error_events) |->
                               RecoveryScore(error_events[i], candidates)]
    IN IF error_events = << >> THEN Ok(Rat(7, 10))
       ELSE IF \E i \in 1..Len(error_events), j \in 1..Len(candidates) :
                  CandidateRaises(candidates[j], error_events[i])
       THEN Raise("TypeError")
       ELSE Ok(RMean(recovery_scores))

\* all_events holds every event; the sort makes the order in which the
\* groups were joined immaterial
CalculateTaskPersistence(processed_events) ==
    LET all_events == Sorted(Timestamps(processed_events))
        action_intervals == Between(Diffs(all_events), IntervalMin, IntervalMax)
        avg_interval == Rat(SumSeq(action_intervals), 10 * Len(action_intervals))
    IN IF Len(processed_events) >= 2 /\ HasStrTimestamp(processed_events)
       THEN Raise("TypeError")
       ELSE IF action_intervals = << >> THEN Ok(Rat(1, 2))
       ELSE Ok(Clamp01(RSub(Rat(1, 1),
                            RDivInt(RSub(avg_interval, Rat(2, 1)), 20))))

AssessCreativeVariety(groups) ==
    LET creative_events == Get(groups, "creative_input", << >>)
        input_types == { DataGet(creative_events[i], "input_type", 0) :
                           i \in 1..Len(creative_events) }
    IN IF creative_events = << >> THEN Ok(Rat(1, 2))
       ELSE IF HasNullData(creative_events) THEN Raise("AttributeError")
       ELSE Ok(RMin(Rat(1, 1), Rat(Cardinality(input_types), VarietyFull)))

\* the weighted sum w1*a + w2*b + w3*c of tenths w1, w2, w3
Weighted(w1, a, w2, b, w3, c) ==
    RAdd(RAdd(RMul(Rat(w1, 10), a), RMul(Rat(w2, 10), b)), RMul(Rat(w3, 10), c))

DeriveAbilityScores(m, variety) ==
    LET one == Rat(1, 1)
    IN [logic_score |->
            Clamp01(Weighted(4, m.decision_consistency,
                             3, RSub(one, m.avg_reaction_time),
                             3, m.error_recovery)),
        creativity_score |->
            Clamp01(Weighted(5, m.exploration_score,
                             3, RSub(one, m.decision_consistency),
                             2, variety)),
        social_score |->
            Clamp01(Weighted(4, m.error_recovery, 3, m.persistence, 3, Rat(1, 2))),
        technical_score |->
            Clamp01(Weighted(4, m.avg_reaction_time,
                             4, m.decision_consistency,
                             2, m.persistence))]

NeutralMetricsWithRecovery ==
    [k \in {"avg_reaction_time", "decision_consistency", "exploration_score",
            "error_recovery", "persistence", "logic_score", "creativity_score",
            "social_score", "technical_score"} |->
        IF k = "error_recovery" THEN Rat(7, 10) ELSE Rat(1, 2)]
NeutralMetrics ==
    [k \in {"avg_reaction_time", "decision_consistency", "exploration_score",
            "error_recovery", "persistence", "logic_score", "creativity_score",
            "social_score", "technical_score"} |-> Rat(1, 2)]

ProcessEvents(event_dicts) ==
    LET processed_events == [i \in 1..Len(event_dicts) |-> GameEventOf(event_dicts[i])]
        groups == GroupEventsByType(processed_events)
        rt == CalculateReactionTimes(groups)
        dc == CalculateDecisionConsistency(groups)
        ex == CalculateExplorationPatterns(groups)
        er == CalculateErrorRecovery(groups)
        pe == CalculateTaskPersistence(processed_events)
        cv == AssessCreativeVariety(groups)
        base == [avg_reaction_time |-> rt.val, decision_consistency |-> dc.val,
                 exploration_score |-> ex.val, error_recovery |-> er.val,
                 persistence |-> pe.val]
    IN IF processed_events = << >> THEN Ok(NeutralMetrics)
       ELSE IF ~rt.ok THEN Raise(rt.exc)
       ELSE IF ~dc.ok THEN Raise(dc.exc)
       ELSE IF ~ex.ok THEN Raise(ex.exc)
       ELSE IF ~er.ok THEN Raise(er.exc)
       ELSE IF ~pe.ok THEN Raise(pe.exc)
       ELSE IF ~cv.ok THEN Raise(cv.exc)
       ELSE Ok(DeriveAbilityScores(base, cv.val) @@ base)

(***************************************************************************)
(* process_events on its own: a list of event dictionaries is drawn and    *)
(* the processor is applied to it.                                         *)
(***************************************************************************)
MaxEvents == 3

Click(t) == EventDict(StrField("click"), NumField(t), DictField(NoKeys))
Choice(t, c) == EventDict(StrField("choice"), NumField(t),
                          DictField([choice |-> c, choice_category |-> c]))
ErrorEvent(t) == EventDict(StrField("error"), NumField(t), DictField(NoKeys))
MouseMove(t, x, y) == EventDict(StrField("mouse_move"), NumField(t),
                                DictField([x |-> x, y |-> y]))
CreativeInput(t, k) == EventDict(StrField("creative_input"), NumField(t),
                                 DictField([input_type |-> k]))

\* more than 10 mouse moves, of which the last reaches the point (x, y)
MouseSweep(x, y) ==
    [i \in 1..(MouseMin + 1) |->
        IF i <= MouseMin THEN MouseMove(120, 0, 0) ELSE MouseMove(120, x, y)]

EventAlphabet ==
    { Click(100), Click(150), Click(400),
      Choice(130, 1), Choice(160, 2),
      ErrorEvent(100), ErrorEvent(140),
      CreativeInput(200, 1),
      EventDict(AbsentType, AbsentField, AbsentData),
      EventDict(StrField("click"), StrTimestamp(1), DictField(NoKeys)),
      EventDict(StrField("choice"), NumField(130), NullField) }

EventInputs ==
    { sweep \o tail :
        sweep \in {<< >>, MouseSweep(1440, 540), MouseSweep(960, 270)},
        tail \in SeqsUpTo(EventAlphabet, MaxEvents) }

\* line 38-45 and 64
GroupsOf(event_dicts) ==
    IF event_dicts = << >> THEN NoResult
    ELSE GroupEventsByType([i \in 1..Len(event_dicts) |-> GameEventOf(event_dicts[i])])

ProcessEventsCall ==
    /\ behavioral_metrics = NoResult
    /\ event_groups' = GroupsOf(events)
    /\ behavioral_metrics' = ProcessEvents(events)
    /\ UNCHANGED <<analyzer, svars, qvars, avars, pvars, events>>

InitEvents ==
    /\ analyzer = "mistral"
    /\ InitQuestions
    /\ InitSessionsIdle
    /\ InitParseIdle
    /\ apc = "idle"
    /\ behavioral_data = << >>
    /\ aresponse = NoResult
    /\ aresult = NoResult
    /\ apath = "none"
    /\ modulesLoaded = TRUE
    /\ profile = NoResult
    /\ events \in EventInputs
    /\ event_groups = NoResult
    /\ behavioral_metrics = NoResult

NextEvents == ProcessEventsCall

SpecEvents == InitEvents /\ [][NextEvents]_vars

(***************************************************************************)
(* The analyze endpoints as a whole: events are logged to the session, and *)
(* the endpoint runs process_events, analyze_responses and the fusion.     *)
(* app.py serves the Mistral analyzer and app_working.py the Llama one.    *)
(* The analysis and the fusion carry a metric in thousandths.              *)
(***************************************************************************)
MaxLogged == 2

Milli(r) == (r.n * 1000) \div r.d
MilliMetrics(m) == [k \in DOMAIN m |-> Milli(m[k])]

\* the events a client can log: GameEvent validates the three fields
LoggedEvents ==
    { Click(100), Click(150), Choice(130, 1), ErrorEvent(100), ErrorEvent(140) }

\* the events a session already holds when it is first observed
SessionEvents == { << >>, MouseSweep(1440, 540) }

\* log_event: active_sessions[session_id].events.append(event)
LogEvent(e) ==
    /\ apc = "idle"
    /\ \E held \in SessionEvents, logged \in SeqsUpTo(LoggedEvents, MaxLogged - 1) :
          events = held \o logged
    /\ events' = Append(events, e)
    /\ UNCHANGED <<analyzer, svars, qvars, avars, pvars, event_groups, behavioral_metrics>>

\* app.py line 148 hands the stored GameEvent objects to process_events,
\* whose line 41 calls .get on each: an object has no such attribute
ProcessEventsOfObjects(stored) ==
    IF stored = << >> THEN Ok(NeutralMetrics) ELSE Raise("AttributeError")

HttpError == [via |-> "http500", body |-> NoResult]

\* app.py lines 144-155 and 162-163, for the events stored in the session
AppAnalyze(stored) ==
    /\ analyzer = "mistral"
    /\ apc = "idle"
    /\ events' = stored
    /\ LET m == ProcessEventsOfObjects(stored)
       IN /\ behavioral_metrics' = m
          /\ IF m.ok
             THEN /\ apc' = "awaiting"
                  /\ behavioral_data' = MilliMetrics(m.val)
                  /\ UNCHANGED profile
             ELSE /\ apc' = "done"
                  /\ profile' = HttpError
                  /\ UNCHANGED behavioral_data
    /\ UNCHANGED <<analyzer, qvars, pvars, event_groups, aresponse,
                   aresult, apath, modulesLoaded>>

AppAnalyzeStart == AppAnalyze(events) /\ UNCHANGED svars

\* app_working.py lines 152-164 and 184-199: the events are converted to
\* dictionaries first
WorkingAnalyzeStart ==
    /\ analyzer = "llama"
    /\ modulesLoaded
    /\ apc = "idle"
    /\ LET m == ProcessEvents(events)
       IN /\ behavioral_metrics' = m
          /\ event_groups' = GroupsOf(events)
          /\ IF m.ok
             THEN /\ apc' = "awaiting"
                  /\ behavioral_data' = MilliMetrics(m.val)
                  /\ UNCHANGED profile
             ELSE /\ apc' = "done"
                  /\ profile' = [via |-> "error", body |-> ErrorProfile]
                  /\ UNCHANGED behavioral_data
    /\ UNCHANGED <<analyzer, svars, qvars, pvars, events, aresponse, aresult, apath,
                   modulesLoaded>>

\* what the inference service answers in the pipeline: all five abilities
\* carry the same value
PipelineTexts ==
    { <<"{", "}">>, <<"x">>, <<"{", "confidence", "insights", "}">> }

InitPipeline ==
    /\ analyzer \in {"mistral", "llama"}
    /\ InitQuestions
    /\ InitSessionsIdle
    /\ InitParseIdle
    /\ events \in SessionEvents
    /\ event_groups = NoResult
    /\ behavioral_metrics = NoResult
    /\ apc = "idle"
    /\ behavioral_data = << >>
    /\ aresponse = NoResult
    /\ aresult = NoResult
    /\ apath = "none"
    /\ modulesLoaded \in IF analyzer = "llama" THEN BOOLEAN ELSE {TRUE}
    /\ profile = NoResult

NextPipeline ==
    \/ \E e \in LoggedEvents : LogEvent(e)
    \/ AppAnalyzeStart
    \/ WorkingAnalyzeStart
    \/ /\ apc = "awaiting"
       /\ \E v \in ScoreValues, confidence \in ConfidenceValues :
             AnalyzeReply(HttpReply(200,
                 AnalysisText("object", [a \in AbilityKeys |-> v], confidence)))
    \/ \E names \in PipelineTexts : AnalyzeReply(HttpReply(200, TextOf(names)))
    \/ AnalyzeReply(HttpReply(500, << >>))
    \/ AnalyzeReply(TransportError("TimeoutError"))
    \/ AppCombine
    \/ WorkingMock
    \/ \E formatted \in BOOLEAN : WorkingFinish(formatted)

SpecPipeline == InitPipeline /\ [][NextPipeline]_vars

(***************************************************************************)
(* The fallback analysis and the fusion of app.py on metrics kept as exact *)
(* fractions, so that round(x, 1) has something to round.  The program     *)
(* adds 0.6 * m and 0.4 * b in binary floating point: when the exact sum   *)
(* lies halfway between two one-decimal numbers, the computed sum lies on  *)
(* or next to the halfway point and round() gives either neighbour.        *)
(***************************************************************************)
\* 0.5735 and 0.3095 are metrics whose hundredfold ends in 5 hundredths
ExactMetricValues ==
    { Rat(0, 1), Rat(1, 3), Rat(1, 2), Rat(619, 2000), Rat(1147, 2000), Rat(1, 1) }

\* metrics in which the keys of one set are present; three of the keys
\* carry v and the others w
ExactMetricInputs ==
    { [k \in present |->
          IF k \in {"logic_score", "social_score", "exploration_score"}
          THEN v ELSE w] :
        present \in {MetricKeys, {"logic_score", "creativity_score"}, {}},
        v \in ExactMetricValues, w \in ExactMetricValues }

FallbackAnalysisExactUnscaled(data) ==
    [ability_scores |->
        [analytical |-> Get(data, "logic_score", Rat(1, 2)),
         creative   |-> Get(data, "creativity_score", Rat(1, 2)),
         social     |-> Get(data, "social_score", Rat(1, 2)),
         technical  |-> Get(data, "technical_score", Rat(1, 2)),
         research   |-> Get(data, "exploration_score", Rat(1, 2))],
     confidence |-> Num(FallbackConfidence),
     insights |-> JList(2)]

\* _generate_fallback_analysis
GenerateFallbackAnalysisExact(data) ==
    [ability_scores |->
        [analytical |-> RMul(Get(data, "logic_score", Rat(1, 2)), Rat(100, 1)),
         creative   |-> RMul(Get(data, "creativity_score", Rat(1, 2)), Rat(100, 1)),
         social     |-> RMul(Get(data, "social_score", Rat(1, 2)), Rat(100, 1)),
         technical  |-> RMul(Get(data, "technical_score", Rat(1, 2)), Rat(100, 1)),
         research   |-> RMul(Get(data, "exploration_score", Rat(1, 2)), Rat(100, 1))],
     confidence |-> Num(FallbackConfidence),
     insights |-> JList(2)]

\* round(x, 1) of the float nearest to x >= 0, in thousandths; up says
\* which way a halfway case comes out
RoundTenthOfFloat(x, up) ==
    LET t == RMul(x, Rat(10, 1))
        f == t.n \div t.d
        r == t.n % t.d
    IN IF 2 * r < t.d THEN f * 100
       ELSE IF 2 * r > t.d THEN (f + 1) * 100
       ELSE IF up THEN (f + 1) * 100 ELSE f * 100

\* combine_analysis_results; ups are the abilities whose halfway case, if
\* they have one, comes out upwards
AppCombineExact(metrics, analysis, ups) ==
    LET mistral_scores == Get(analysis, "ability_scores", << >>)
        behavioral_val(a) ==
            RMul(Get(metrics, AppBehavioralKey[a], Rat(1, 2)), Rat(100, 1))
        mistral_val(a) == Get(mistral_scores, a, Rat(50, 1))
    IN [scores |-> [a \in AbilityKeys |->
                       RoundTenthOfFloat(
                           RAdd(RMul(Rat(3, 5), mistral_val(a)),
                                RMul(Rat(2, 5), behavioral_val(a))),
                           a \in ups)],
        confidence |-> Get(analysis, "confidence", Num(AppDefaultConfidence)).v,
        insights |-> Get(analysis, "insights", JList(0))]

\* analyze_responses lines 109-122, when the call or the parser raises
AnalyzeFallsBack(reply) ==
    /\ apc = "awaiting"
    /\ AnalyzeResponses(analyzer, reply, << >>).path = "fallback"
    /\ apc' = "returned"
    /\ apath' = "fallback"
    /\ aresult' = GenerateFallbackAnalysisExact(behavioral_metrics.val)
    /\ aresponse' = reply
    /\ UNCHANGED <<analyzer, svars, pvars, evars, qvars, behavioral_data,
                   modulesLoaded, profile>>

\* app.py line 158, on the fallback analysis
AppCombineFallback(ups) ==
    /\ analyzer = "mistral"
    /\ apc = "returned"
    /\ apc' = "done"
    /\ profile' = [via |-> apath,
                   body |-> AppCombineExact(behavioral_metrics.val, aresult, ups)]
    /\ UNCHANGED <<analyzer, svars, pvars, evars, qvars, behavioral_data, aresponse,
                   aresult, apath, modulesLoaded>>

FailingReplies ==
    { HttpReply(500, << >>), TransportError("TimeoutError"),
      TransportError("ClientError"), HttpReply(200, <<PX>>),
      HttpReply(200, <<LB, RB>>) }

InitFallbackFusion ==
    /\ analyzer = "mistral"
    /\ InitQuestions
    /\ InitSessionsIdle
    /\ InitParseIdle
    /\ events = << >>
    /\ event_groups = NoResult
    /\ behavioral_metrics \in { Ok(m) : m \in ExactMetricInputs }
    /\ apc = "awaiting"
    /\ behavioral_data = << >>
    /\ aresponse = NoResult
    /\ aresult = NoResult
    /\ apath = "none"
    /\ modulesLoaded = TRUE
    /\ profile = NoResult

NextFallbackFusion ==
    \/ \E reply \in FailingReplies : AnalyzeFallsBack(reply)
    \/ \E ups \in SUBSET AbilityKeys : AppCombineFallback(ups)

SpecFallbackFusion == InitFallbackFusion /\ [][NextFallbackFusion]_vars

(***************************************************************************)
(* app.py: the sessions and the endpoints that take a session id.  A       *)
(* session id is session_<millisecond>; the model keeps the millisecond.   *)
(***************************************************************************)
MaxClock == 1
NotFound == 404
Logged == 200

\* an id that start_session never hands out, next to those it can
SessionIds == {-1} \cup 0..MaxClock

ResponseData == { ("q1" :> "a"), ("q1" :> "b") }

\* AssessmentSession(session_id=..., events=[], responses={}, creative_outputs=[])
NewSession(id) ==
    [session_id |-> id, events |-> << >>, responses |-> << >>,
     creative_outputs |-> << >>]

\* time passes
Tick ==
    /\ clock < MaxClock
    /\ clock' = clock + 1
    /\ UNCHANGED <<analyzer, active_sessions, http_status, qvars, avars, pvars,
                   evars>>

\* f"session_{int(time.time() * 1000)}"
SessionIdOf(sessions, now) == now

\* lines 80-90: active_sessions[session_id] = AssessmentSession(...)
StartSession ==
    /\ LET session_id == SessionIdOf(active_sessions, clock)
       IN active_sessions' =
             [id \in DOMAIN active_sessions \cup {session_id} |->
                 IF id = session_id THEN NewSession(session_id)
                 ELSE active_sessions[id]]
    /\ http_status' = Logged
    /\ UNCHANGED <<analyzer, clock, qvars, avars, pvars, evars>>

\* if session_id not in active_sessions: raise HTTPException(status_code=404)
RejectedNever(sessions, session_id) == FALSE
Rejected(sessions, session_id) == session_id \notin DOMAIN sessions

\* the session's record after events.append(event); an id without a
\* session has none to change
WithEvent(sessions, session_id, event) ==
    [id \in DOMAIN sessions |->
        IF id = session_id
        THEN [sessions[id] EXCEPT !.events = Append(@, event)]
        ELSE sessions[id]]

\* responses.update(response_data)
WithResponse(sessions, session_id, response_data) ==
    [id \in DOMAIN sessions |->
        IF id = session_id
        THEN [sessions[id] EXCEPT !.responses = response_data @@ @]
        ELSE sessions[id]]

MaxSessionEvents == 1

\* lines 92-99
SessionLogEvent(session_id, event) ==
    /\ IF Rejected(active_sessions, session_id)
       THEN /\ http_status' = NotFound
            /\ UNCHANGED active_sessions
       ELSE /\ \A id \in DOMAIN active_sessions :
                  id = session_id =>
                     Len(active_sessions[id].events) < MaxSessionEvents
            /\ active_sessions' = WithEvent(active_sessions, session_id, event)
            /\ http_status' = Logged
    /\ UNCHANGED <<analyzer, clock, qvars, avars, pvars, evars>>

\* lines 101-108
SessionLogResponse(session_id, response_data) ==
    /\ IF Rejected(active_sessions, session_id)
       THEN /\ http_status' = NotFound
            /\ UNCHANGED active_sessions
       ELSE /\ active_sessions' =
                  WithResponse(active_sessions, session_id, response_data)
            /\ http_status' = Logged
    /\ UNCHANGED <<analyzer, clock, qvars, avars, pvars, evars>>

\* lines 110-136: the check, then the call of mistral_analyzer.generate_question
SessionGenerateQuestion(c, session_id, stage_name) ==
    IF Rejected(active_sessions, session_id)
    THEN /\ pc[c] = "idle"
         /\ http_status' = NotFound
         /\ UNCHANGED <<analyzer, active_sessions, clock, qvars, avars, pvars,
                        evars>>
    ELSE GenStart(c, stage_name)

\* lines 138-155: the check, then process_events and the analysis call
SessionAnalyze(session_id) ==
    IF Rejected(active_sessions, session_id)
    THEN /\ apc = "idle"
         /\ http_status' = NotFound
         /\ UNCHANGED <<analyzer, active_sessions, clock, qvars, avars, pvars,
                        evars>>
    ELSE /\ AppAnalyze(IF session_id \in DOMAIN active_sessions
                       THEN active_sessions[session_id].events ELSE << >>)
         /\ UNCHANGED svars

SessionReplies ==
    { HttpReply(200, <<LB, Member("question", JStr(Rep(1, 31))),
                       Member("choices", JList(2)), RB>>),
      HttpReply(500, << >>) }

InitSessions ==
    /\ analyzer = "mistral"
    /\ InitQuestions
    /\ InitSessionsIdle
    /\ InitAnalysisIdle

NextSessions ==
    \/ Tick
    \/ StartSession
    \/ \E id \in SessionIds : SessionLogEvent(id, Click(100))
    \/ \E id \in SessionIds, data \in ResponseData : SessionLogResponse(id, data)
    \/ \E id \in SessionIds : SessionGenerateQuestion(1, id, "analytical")
    \/ \E id \in SessionIds : SessionAnalyze(id)
    \/ \E r \in SessionReplies : GenReply(1, r)
    \/ GenCollect(1)
    \/ AnalyzeReply(HttpReply(500, << >>))
    \/ AppCombine

SpecSessions == InitSessions /\ [][NextSessions]_vars

(***************************************************************************)
(* Claims about MistralAnalyzer.generate_question.                         *)
(***************************************************************************)
Last(seq) == seq[Len(seq)]

Failed(o) == o \in {"error", "duplicate"}

ReturnedFallback(c) ==
    /\ pc[c] = "returned"
    /\ \A i \in 1..Len(outcomes[c]) : Failed(outcomes[c][i])

ReturnedGenerated(c) ==
    /\ pc[c] = "returned"
    /\ outcomes[c] # << >>
    /\ Last(outcomes[c]) = "accepted"

\* C1: generate_question never raises to its caller: whatever the attempts
\* end in (transport exception, non-200 status, text without JSON, invalid
\* JSON, missing fields, too few choices, duplicate), a finished call has
\* returned a question dictionary.
C1_NeverRaises ==
    \A c \in Callers :
        /\ pc[c] # "raised"
        /\ pc[c] = "returned" =>
              /\ "question" \in DOMAIN result[c]
              /\ "choices" \in DOMAIN result[c]

C1_Witness ==
    \E c \in Callers :
        /\ pc[c] = "returned"
        /\ outcomes[c] = <<"error", "duplicate", "error">>
        /\ "question" \in DOMAIN result[c]

\* C2: a call issues exactly one inference request per attempt and at most
\* three in all, stops at the first accepted attempt, and returns the static
\* fallback exactly when all three attempts ended in an error or a duplicate.
C2_OneRequestPerAttempt ==
    \A c \in Callers :
        /\ requests[c] <= MaxAttempts
        /\ pc[c] = "awaiting" => requests[c] = Len(outcomes[c]) + 1
        /\ pc[c] = "returned" =>
              /\ requests[c] = Len(outcomes[c])
              /\ \A i \in 1..(Len(outcomes[c]) - 1) : Failed(outcomes[c][i])
              /\ (result[c] = GenerateFallbackQuestion(stage[c]))
                    <=> (Len(outcomes[c]) = MaxAttempts /\ ReturnedFallback(c))

\* the same with the attempts that ended before their request set aside
C2_AtMostOneRequestPerAttempt ==
    \A c \in Callers :
        /\ requests[c] <= MaxAttempts
        /\ pc[c] = "awaiting" => requests[c] = Len(outcomes[c]) + 1
        /\ pc[c] = "returned" =>
              /\ requests[c] <= Len(outcomes[c])
              /\ (\A i \in 1..Len(generated_questions[stage[c]]) :
                     generated_questions[stage[c]][i].type = "str")
                    => requests[c] = Len(outcomes[c])
              /\ \A i \in 1..(Len(outcomes[c]) - 1) : Failed(outcomes[c][i])
              /\ (result[c] = GenerateFallbackQuestion(stage[c]))
                    <=> (Len(outcomes[c]) = MaxAttempts /\ ReturnedFallback(c))

\* C3: when an attempt's response parses to a valid question that the
\* duplicate test does not flag, its text becomes the last entry of the
\* requested stage's cache and that parsed question is what the call returns.
C3_AcceptedIsAppendedAndReturned ==
    [][\A c \in Callers, r \in QuestionReplies :
          LET parsed == ParseQuestionResult(r.text, stage[c])
              dup == IsDuplicateQuestion(parsed.val, generated_questions[stage[c]])
          IN (/\ GenReply(c, r)
              /\ r.kind = "http" /\ r.status = 200
              /\ parsed.ok /\ dup.ok /\ ~dup.val)
             => /\ pc'[c] = "returned"
                /\ result'[c] = parsed.val
                /\ Len(generated_questions'[stage[c]])
                      = Len(generated_questions[stage[c]]) + 1
                /\ Last(generated_questions'[stage[c]]) = parsed.val["question"]
                /\ SubSeq(generated_questions'[stage[c]], 1,
                          Len(generated_questions[stage[c]]))
                      = generated_questions[stage[c]]]_vars

C3_Witness ==
    \E c \in Callers :
        /\ ReturnedGenerated(c)
        /\ Len(outcomes[c]) > 1
        /\ Len(generated_questions[stage[c]]) > 1
        /\ Last(generated_questions[stage[c]]) = result[c]["question"]

\* C4: in LlamaAnalyzer.generate_question, a well-formed reply (valid JSON
\* with 'question' and at least 2 'choices') whose question is not in the
\* stage's cache is appended to the cache and returned instead of the
\* fallback.
C4_LlamaAcceptedIsAppendedAndReturned ==
    [][\A c \in Callers, r \in QuestionReplies :
          LET parsed == LlamaParseQuestionResult(r.text, stage[c])
              cached == generated_questions[stage[c]]
          IN (/\ analyzer = "llama"
              /\ GenReply(c, r)
              /\ r.kind = "http" /\ r.status = 200
              /\ parsed.ok
              /\ \A i \in 1..Len(cached) : cached[i] # parsed.val["question"])
             => /\ pc'[c] = "returned"
                /\ result'[c] = parsed.val
                /\ generated_questions'[stage[c]]
                      = Append(cached, parsed.val["question"])]_vars

\* C5: the per-stage cache only grows: every step leaves each stage's list a
\* prefix of what it becomes, and no stage key disappears.
C5_CacheOnlyGrows ==
    [][\A s \in DOMAIN generated_questions :
          /\ s \in DOMAIN generated_questions'
          /\ IsPrefixOf(generated_questions[s], generated_questions'[s])]_vars

C5_Witness ==
    \E s \in DOMAIN generated_questions : Len(generated_questions[s]) >= 2

\* C6, as claimed: a stage's cache never contains the same question text
\* twice.
C6_NoRepeatedText ==
    \A s \in DOMAIN generated_questions :
        \A i, j \in 1..Len(generated_questions[s]) :
            i < j => generated_questions[s][i] # generated_questions[s][j]

\* C6, amended: a stage's cache never contains twice the same question text
\* of more than 30 characters; an entry that repeats an earlier one is a text
\* of 30 characters or fewer, which the duplicate test never flags.
C6_NoRepeatedLongText ==
    \A s \in DOMAIN generated_questions :
        \A i, j \in 1..Len(generated_questions[s]) :
            (i < j /\ generated_questions[s][i] = generated_questions[s][j])
                => /\ generated_questions[s][j].type = "str"
                   /\ Len(generated_questions[s][j].val) <= DupMinLen

\* a call was offered a text of more than 30 characters that the cache
\* already held, judged it a duplicate, and the cache kept one copy
C6_Witness ==
    \E c \in Callers :
        /\ pc[c] = "returned"
        /\ outcomes[c] # << >>
        /\ outcomes[c][1] = "duplicate"
        /\ \E i \in 1..Len(generated_questions[stage[c]]) :
              /\ generated_questions[stage[c]][i].type = "str"
              /\ Len(generated_questions[stage[c]][i].val) > DupMinLen

\* C7: on exhaustion the fallback for "analytical" is the static analytical
\* question, of type multiple_choice with at least 4 choices; a stage with
\* its own entry gets that entry, any other stage the analytical one; the
\* 'stage' field is the requested stage name.
C7_FallbackByStage ==
    \A c \in Callers :
        (analyzer = "mistral" /\ ReturnedFallback(c)) =>
            /\ result[c]["stage"] = stage[c]
            /\ result[c]["type"] = JStr(MultipleChoice)
            /\ Len(result[c]["choices"].val) >= 4
            /\ stage[c] = "analytical" => result[c]["question"] = JStr(Rep(7, 88))
            /\ stage[c] = "social" => result[c]["question"] = JStr(Rep(9, 61))
            /\ stage[c] \notin {"analytical", "creative", "social"}
                  => result[c]["question"] = JStr(Rep(7, 88))

C7_Witness ==
    \E c, d \in Callers :
        /\ ReturnedFallback(c) /\ stage[c] = "memory"
        /\ ReturnedFallback(d) /\ stage[d] = "social"



(***************************************************************************)
(* Claims about the analysis.                                              *)
(***************************************************************************)
SpanOf(text) == Slice(text, Find(text, "{"), RFind(text, "}") + 1)

NoBraceSpan(text) ==
    \/ \A i \in 1..Len(text) : text[i].t # "{"
    \/ \A i \in 1..Len(text) : text[i].t # "}"

\* the inference call failed, or its text is malformed in one of the ways
\* the claim lists
FailedOrMalformed(reply) ==
    \/ reply.kind = "exc"
    \/ reply.status # 200
    \/ NoBraceSpan(reply.text)
    \/ ~IsJsonObject(SpanOf(reply.text))
    \/ ~(RequiredKeys \subseteq DOMAIN JsonLoads(SpanOf(reply.text)))
    \/ ~(AbilityKeys \subseteq DOMAIN JsonLoads(SpanOf(reply.text))["ability_scores"])

\* C8: analyze_responses never raises; when the inference call fails or the
\* generated text is malformed it returns the behavioural-only fallback: the
\* five mapped behavioural metrics times 100, with confidence at most 0.6.
C8_FailureGivesFallback ==
    analyzer = "mistral" =>
        /\ apc # "raised"
        /\ (apc = "returned" /\ FailedOrMalformed(aresponse)) =>
              /\ DOMAIN aresult.ability_scores = AbilityKeys
              /\ \A a \in AbilityKeys :
                    aresult.ability_scores[a]
                       = Num(100 * Get(behavioral_data, BehavioralKey[a], 500))
              /\ aresult.confidence.type = "num"
              /\ aresult.confidence.v <= 600

C8_Witness ==
    /\ analyzer = "mistral"
    /\ apc = "returned"
    /\ aresponse.kind = "http" /\ aresponse.status = 200
    /\ aresponse.text # << >>
    /\ NoBraceSpan(aresponse.text)
    /\ "social_score" \notin DOMAIN behavioral_data
    /\ aresult.ability_scores["analytical"] = Num(80000)
    /\ aresult.ability_scores["social"] = Num(50000)

\* C9: every result produced on a failure path (inference call failed,
\* response malformed, analysis pipeline raised, analyzer modules
\* unavailable) reports a confidence of at most 0.6.
C9_FailurePathsReducedConfidence ==
    /\ (apc \in {"returned", "done"} /\ apath = "fallback")
          => aresult.confidence.v <= 600
    /\ (apc = "done" /\ profile.via \in {"fallback", "error", "mock"})
          => profile.body.confidence <= 600

\* the same, leaving out the answer given when the modules are not loaded
C9_ReducedConfidenceWhenLoaded ==
    /\ (apc \in {"returned", "done"} /\ apath = "fallback")
          => aresult.confidence.v <= 600
    /\ (apc = "done" /\ profile.via \in {"fallback", "error"})
          => profile.body.confidence <= 600

\* C10: a result of _parse_analysis_result holds all five ability keys, each
\* score within [0,100] and the confidence within [0,1]; a number out of
\* range is clamped to the nearest bound and a number in range is unchanged.
ClampedAsClaimed(given, got, hi) ==
    /\ got.type = "num"
    /\ 0 <= got.v /\ got.v <= hi
    /\ given.type = "num" =>
          /\ given.v < 0 => got.v = 0
          /\ given.v > hi => got.v = hi
          /\ (0 <= given.v /\ given.v <= hi) => got.v = given.v

C10_ParsedResultInRange ==
    (analyzer = "mistral" /\ apc = "returned" /\ apath = "parsed") =>
        LET given == JsonLoads(SpanOf(aresponse.text))
        IN /\ AbilityKeys \subseteq DOMAIN aresult["ability_scores"]
           /\ \A a \in AbilityKeys :
                 ClampedAsClaimed(given["ability_scores"][a],
                                  aresult["ability_scores"][a], 100000)
           /\ ClampedAsClaimed(given["confidence"], aresult["confidence"], 1000)

C10_Witness ==
    /\ analyzer = "mistral" /\ apc = "returned" /\ apath = "parsed"
    /\ LET given == JsonLoads(SpanOf(aresponse.text))
       IN /\ given["ability_scores"]["social"] = Num(-5000)
          /\ given["ability_scores"]["research"] = Num(150000)
          /\ given["confidence"] = Num(7000)
          /\ aresult["ability_scores"]["social"] = Num(0)
          /\ aresult["ability_scores"]["research"] = Num(100000)
          /\ aresult["confidence"] = Num(1000)


(***************************************************************************)
(* Claims about the two parsers.                                           *)
(***************************************************************************)
NotJson(text) == NoBraceSpan(text) \/ ~IsJsonObject(SpanOf(text))

AnalysisDefect(text) ==
    \/ NotJson(text)
    \/ ~({"ability_scores", "confidence", "insights"}
            \subseteq DOMAIN JsonLoads(SpanOf(text)))
    \/ ~({"analytical", "creative", "social", "technical", "research"}
            \subseteq DOMAIN JsonLoads(SpanOf(text))["ability_scores"])

QuestionDefect(text) ==
    \/ NotJson(text)
    \/ ~({"question", "choices"} \subseteq DOMAIN JsonLoads(SpanOf(text)))
    \/ Len(JsonLoads(SpanOf(text))["choices"].val) < 2

\* C11: the parsers fail closed: when the text has no brace span, the span
\* is not valid JSON, a required top-level key is absent, one of the five
\* ability keys is missing, or a question has fewer than 2 choices, the
\* parser raises and returns nothing.
C11_ParsersFailClosed ==
    /\ (panalysis # NoResult /\ AnalysisDefect(TextOf(ptext))) => ~panalysis.ok
    /\ (pquestion # NoResult /\ QuestionDefect(TextOf(ptext))) => ~pquestion.ok

C11_Witness ==
    /\ ptext = <<"{", "scores4", "confidence", "insights", "}">>
    /\ panalysis # NoResult /\ ~panalysis.ok
    /\ pquestion # NoResult /\ ~pquestion.ok

\* the end of the first balanced object: the first closing brace after the
\* first opening brace, when only members stand between them; 0 otherwise
FirstObjectEnd(text) ==
    LET first == Find(text, "{") + 1
        ends == { j \in (first + 1)..Len(text) : text[j].t = "}" }
        j0 == CHOOSE j \in ends : \A k \in ends : j <= k
    IN IF first = 0 \/ ends = {} THEN 0
       ELSE IF IsJsonObject(SubSeq(text, first, j0)) THEN j0 ELSE 0

FirstObject(text) == SubSeq(text, Find(text, "{") + 1, FirstObjectEnd(text))

\* C12: the parser extracts the first balanced JSON object: when a valid
\* object with the required keys begins at the first opening brace, parsing
\* succeeds with that object, whatever text follows it.
C12_FirstBalancedObjectIsParsed ==
    LET text == TextOf(ptext)
    IN FirstObjectEnd(text) # 0 =>
          /\ (panalysis # NoResult /\ ~AnalysisDefect(FirstObject(text)))
                => panalysis = ParseAnalysisResult(FirstObject(text))
          /\ (pquestion # NoResult /\ ~QuestionDefect(FirstObject(text)))
                => pquestion.ok


(***************************************************************************)
(* Claims about the fusion.                                                *)
(***************************************************************************)
\* the behavioural metric of an ability, in thousandths, 0.5 when absent
MappedMetric(data, a) ==
    LET key == CASE a = "analytical" -> "logic_score"
                 [] a = "creative" -> "creativity_score"
                 [] a = "social" -> "social_score"
                 [] a = "technical" -> "technical_score"
                 [] a = "research" -> "exploration_score"
    IN IF key \in DOMAIN data THEN data[key] ELSE 500

\* the model score of an ability, in thousandths, 50.0 when absent
ModelScore(analysis, a) ==
    IF "ability_scores" \in DOMAIN analysis
       /\ a \in DOMAIN analysis["ability_scores"]
    THEN analysis["ability_scores"][a].v
    ELSE 50000

\* r, in thousandths, is x, in ten-thousandths, rounded to one decimal
IsRoundedToTenth(r, x) ==
    /\ r % 100 = 0
    /\ 10 * r - x <= 500
    /\ x - 10 * r <= 500

\* C13: combine_analysis_results gives exactly the five abilities, each
\* round(0.6 * model_value + 0.4 * behavioral_value, 1), the behavioural
\* value being the mapped metric (0.5 when absent) times 100 and the model
\* value the model score (50.0 when absent); logic_score 0.8 with
\* analytical 90 gives 86.0.
C13_FusedIsWeightedSum ==
    (apc = "done" /\ profile.via = "parsed") =>
        /\ DOMAIN profile.body.scores =
              {"analytical", "creative", "social", "technical", "research"}
        /\ \A a \in DOMAIN profile.body.scores :
              IsRoundedToTenth(profile.body.scores[a],
                               6 * ModelScore(aresult, a)
                               + 4 * 100 * MappedMetric(behavioral_data, a))
        /\ (MappedMetric(behavioral_data, "analytical") = 800
            /\ ModelScore(aresult, "analytical") = 90000)
              => profile.body.scores["analytical"] = 86000

C13_Witness ==
    /\ apc = "done"
    /\ "logic_score" \in DOMAIN behavioral_data
    /\ behavioral_data["logic_score"] = 800
    /\ "social_score" \notin DOMAIN behavioral_data
    /\ aresult = [ability_scores |-> [a \in {"analytical", "creative"} |-> Num(90000)],
                  confidence |-> Num(850), insights |-> JList(2)]
    /\ profile.body.scores["analytical"] = 86000
    /\ profile.body.scores["social"] = 50000


(***************************************************************************)
(* Claims about process_events.                                            *)
(***************************************************************************)
Processed == behavioral_metrics # NoResult

NineKeys ==
    {"avg_reaction_time", "decision_consistency", "exploration_score",
     "error_recovery", "persistence", "logic_score", "creativity_score",
     "social_score", "technical_score"}

InUnit(r) == r.n >= 0 /\ r.n <= r.d

\* the type, time and data an event dictionary stands for
TypeOf(d) == IF d.event_type.kind = "absent" THEN "" ELSE d.event_type.v
TimeOf(d) == IF d.timestamp.kind = "absent" THEN 0 ELSE d.timestamp.v
IndicesOf(evs, t) == { i \in 1..Len(evs) : TypeOf(evs[i]) = t }
HasErrorEvent(evs) == IndicesOf(evs, "error") # {}

\* C15: process_events never raises and always returns exactly the nine
\* metric keys, each with a value in [0,1], for every event sequence,
\* including events with missing or malformed fields.
C15_ProcessEventsTotalAndBounded ==
    Processed =>
        /\ behavioral_metrics.ok
        /\ DOMAIN behavioral_metrics.val = NineKeys
        /\ \A k \in NineKeys : InUnit(behavioral_metrics.val[k])

\* what holds of every call that returns
C15_BoundedWhenReturned ==
    (Processed /\ behavioral_metrics.ok) =>
        /\ DOMAIN behavioral_metrics.val = NineKeys
        /\ \A k \in NineKeys : InUnit(behavioral_metrics.val[k])

\* C16: on an empty event list process_events returns all nine metrics
\* equal to exactly 0.5, error_recovery included, and computes no derived
\* metric (the events are not even grouped).
C16_EmptyGivesNeutral ==
    (Processed /\ events = << >>) =>
        /\ behavioral_metrics.ok
        /\ DOMAIN behavioral_metrics.val = NineKeys
        /\ \A k \in NineKeys : behavioral_metrics.val[k] = [n |-> 1, d |-> 2]
        /\ event_groups = NoResult

C16_Witness == Processed /\ events = << >> /\ behavioral_metrics.ok

\* C17: whenever the input has no event of type error, the returned
\* error_recovery is exactly 0.7.
C17_NoErrorGivesSevenTenths ==
    (Processed /\ behavioral_metrics.ok /\ ~HasErrorEvent(events)) =>
        behavioral_metrics.val["error_recovery"] = [n |-> 7, d |-> 10]

\* C17, amended: for a non-empty input without an error event the returned
\* error_recovery is exactly 0.7; for the empty input it is 0.5.
C17_NonEmptyNoErrorGivesSevenTenths ==
    (Processed /\ behavioral_metrics.ok /\ ~HasErrorEvent(events)) =>
        behavioral_metrics.val["error_recovery"] =
            IF events = << >> THEN [n |-> 1, d |-> 2] ELSE [n |-> 7, d |-> 10]

C17_Witness ==
    /\ Processed /\ behavioral_metrics.ok
    /\ Len(events) = 2
    /\ ~HasErrorEvent(events)
    /\ IndicesOf(events, "click") # {}
    /\ behavioral_metrics.val["error_recovery"] = [n |-> 7, d |-> 10]

NumericTimes(evs) == \A i \in 1..Len(evs) : evs[i].timestamp.kind # "str"

TimeOrdered(seq) ==
    \A i, j \in 1..Len(seq) : i < j => seq[i].timestamp.v <= seq[j].timestamp.v

ArrivalGroup(evs, t) ==
    [k \in 1..Cardinality(IndicesOf(evs, t)) |->
        GameEventOf(evs[CHOOSE i \in IndicesOf(evs, t) :
                          Cardinality({ j \in IndicesOf(evs, t) : j <= i }) = k])]

CoverageEstimate(evs) ==
    LET moves == IndicesOf(evs, "mouse_move")
        xs == { Get(evs[i].data.v, "x", 0) : i \in moves }
        ys == { Get(evs[i].data.v, "y", 0) : i \in moves }
        doubled == Rat(2 * (SetMax(xs) - SetMin(xs)) * (SetMax(ys) - SetMin(ys)),
                       1920 * 1080)
    IN RMax(Rat(1, 2), RMin(Rat(1, 1), doubled))

ChoiceDiversity(evs) ==
    LET choices == IndicesOf(evs, "choice")
    IN Rat(Cardinality({ Get(evs[i].data.v, "choice", 0) : i \in choices }),
           Cardinality(choices))

CoveragePresent(evs) == Cardinality(IndicesOf(evs, "mouse_move")) > 10
DiversityPresent(evs) == IndicesOf(evs, "choice") # {}

\* C19: exploration_score is the average of the spatial-coverage estimate
\* and the choice-diversity ratio when both signals are present (more than
\* 10 mouse_move events and at least one choice event), the value of the
\* single present signal when only one is present, and 0.5 when neither is.
C19_ExplorationBySignals ==
    (Processed /\ behavioral_metrics.ok) =>
        behavioral_metrics.val["exploration_score"] =
            IF CoveragePresent(events) /\ DiversityPresent(events)
            THEN RDivInt(RAdd(CoverageEstimate(events), ChoiceDiversity(events)), 2)
            ELSE IF CoveragePresent(events) THEN CoverageEstimate(events)
            ELSE IF DiversityPresent(events) THEN ChoiceDiversity(events)
            ELSE Rat(1, 2)

\* what the code does when only the choices are present: the 0.5 baseline
\* is averaged with the diversity ratio
C19_ChoicesAveragedWithBaseline ==
    (Processed /\ behavioral_metrics.ok) =>
        behavioral_metrics.val["exploration_score"] =
            IF CoveragePresent(events) /\ DiversityPresent(events)
            THEN RDivInt(RAdd(CoverageEstimate(events), ChoiceDiversity(events)), 2)
            ELSE IF CoveragePresent(events) THEN CoverageEstimate(events)
            ELSE IF DiversityPresent(events)
            THEN RDivInt(RAdd(Rat(1, 2), ChoiceDiversity(events)), 2)
            ELSE Rat(1, 2)

\* the latencies of the click and choice events that count as a recovery
\* from the error event at index i
RecoveryLatencies(evs, i) ==
    { TimeOf(evs[j]) - TimeOf(evs[i]) :
        j \in { j \in IndicesOf(evs, "click") \cup IndicesOf(evs, "choice") :
                  /\ TimeOf(evs[j]) > TimeOf(evs[i])
                  /\ TimeOf(evs[j]) - TimeOf(evs[i]) < 300 } }

ErrorScore(evs, i) ==
    IF RecoveryLatencies(evs, i) = {} THEN Rat(2, 10)
    ELSE Clamp01(RSub(Rat(1, 1), Rat(SetMin(RecoveryLatencies(evs, i)), 300)))

RECURSIVE SumOfErrorScores(_, _)
SumOfErrorScores(evs, idx) ==
    IF idx = {} THEN Rat(0, 1)
    ELSE LET i == CHOOSE i \in idx : TRUE
         IN RAdd(ErrorScore(evs, i), SumOfErrorScores(evs, idx \ {i}))

\* C20: with at least one error event, error_recovery is the arithmetic
\* mean over all error events of a per-error score: clamp(1 - latency/30,
\* 0, 1) for the earliest click or choice event strictly after the error and
\* strictly less than 30 seconds after it, and 0.2 when there is none.
C20_ErrorRecoveryIsMeanScore ==
    (Processed /\ behavioral_metrics.ok /\ HasErrorEvent(events)) =>
        behavioral_metrics.val["error_recovery"] =
            RDivInt(SumOfErrorScores(events, IndicesOf(events, "error")),
                    Cardinality(IndicesOf(events, "error")))

C20_Witness ==
    /\ Processed /\ behavioral_metrics.ok
    /\ Len(events) = 3
    /\ TypeOf(events[1]) = "error" /\ TimeOf(events[1]) = 100
    /\ TypeOf(events[2]) = "click" /\ TimeOf(events[2]) = 400
    /\ TypeOf(events[3]) = "error" /\ TimeOf(events[3]) = 140
    /\ behavioral_metrics.val["error_recovery"] = [n |-> 1, d |-> 6]


(***************************************************************************)
(* Claims about the pipeline.                                              *)
(***************************************************************************)
ProfileReturned == apc = "done" /\ profile.via # "http500"

\* C14: the profile produced by the whole pipeline (process_events, then
\* analyze_responses, then combine_analysis_results) has each of the five
\* fused scores in [0,100] and its confidence in [0,1], for every event
\* sequence and every inference outcome.
C14_ProfileInRange ==
    ProfileReturned =>
        /\ \A a \in {"analytical", "creative", "social", "technical", "research"} :
              /\ profile.body.scores[a] >= 0
              /\ profile.body.scores[a] <= 100000
        /\ profile.body.confidence >= 0
        /\ profile.body.confidence <= 1000

C14_Witness ==
    /\ ProfileReturned
    /\ profile.via = "parsed"
    /\ HasErrorEvent(events)
    /\ Len(events) > 11
    /\ aresult["ability_scores"]["analytical"] = Num(100000)
    /\ profile.body.confidence = 0


(***************************************************************************)
(* Claims about concurrent calls and about the frame of generate_question. *)
(***************************************************************************)
\* caller c's call sent one prompt, built while the stage's cache was empty
SentOnEmptyCache(c) == Len(prompts[c]) = 1 /\ prompts[c][1].count = 0

\* C21: two generate_question calls for the same stage, interleaved at their
\* inference calls, are not coordinated: when one of them has appended a
\* text and returned, a reply to the other that carries the same text, not
\* longer than 30 characters, is appended again and returned, leaving the
\* text twice in the stage's cache.
C21_SameTextAppendedTwice ==
    [][\A c \in Callers, d \in Callers, r \in QuestionReplies :
          LET parsed == ParseQuestionResult(r.text, stage[c])
              cached == generated_questions[stage[c]]
          IN (/\ c # d
              /\ analyzer = "mistral"
              /\ stage[c] = stage[d]
              /\ pc[d] = "returned"
              /\ outcomes[d] # << >>
              /\ outcomes[d][Len(outcomes[d])] = "accepted"
              /\ GenReply(c, r)
              /\ r.kind = "http" /\ r.status = 200
              /\ parsed.ok
              /\ parsed.val["question"] = result[d]["question"]
              /\ parsed.val["question"].type = "str"
              /\ Len(parsed.val["question"].val) <= 30)
             => /\ pc'[c] = "returned"
                /\ result'[c]["question"] = result[d]["question"]
                /\ generated_questions'[stage[c]]
                      = Append(cached, result[d]["question"])
                /\ \E i \in 1..Len(cached) : cached[i] = result[d]["question"]]_vars

C21_Witness ==
    /\ stage[1] = stage[2]
    /\ pc[1] = "returned" /\ pc[2] = "returned"
    /\ outcomes[1] = <<"accepted">> /\ outcomes[2] = <<"accepted">>
    /\ SentOnEmptyCache(1) /\ SentOnEmptyCache(2)
    /\ result[1]["question"] = result[2]["question"]
    /\ generated_questions[stage[1]]
          = <<result[1]["question"], result[1]["question"]>>


\* what every returned question has, whatever its 'type'
HasQuestionFields(c) ==
    /\ {"question", "choices", "stage", "generated_at"} \subseteq DOMAIN result[c]
    /\ result[c]["choices"].type = "list"
    /\ Len(result[c]["choices"].val) >= 2
    /\ result[c]["stage"] = stage[c]

\* C22: every question generate_question returns, generated or fallback,
\* has a 'question', at least 2 'choices', a 'type' equal to
\* multiple_choice, a 'stage' equal to the requested stage and a
\* 'generated_at' value.
C22_ReturnedQuestionWellFormed ==
    \A c \in Callers :
        pc[c] = "returned" =>
            /\ HasQuestionFields(c)
            /\ "type" \in DOMAIN result[c]
            /\ result[c]["type"] = JStr(MultipleChoice)

\* the part of C22 that the parser and the fallback do establish
C22_FieldsExceptType ==
    \A c \in Callers :
        pc[c] = "returned" =>
            /\ HasQuestionFields(c)
            /\ ReturnedFallback(c) => result[c]["type"] = JStr(MultipleChoice)


(***************************************************************************)
(* Claims about process_events and the arrival order of its input.         *)
(***************************************************************************)
\* the list with the events at positions i and j exchanged
Swap(s, i, j) ==
    [k \in 1..Len(s) |-> IF k = i THEN s[j] ELSE IF k = j THEN s[i] ELSE s[k]]

SameOutcome(a, b) ==
    /\ a.ok = b.ok
    /\ a.ok => a.val = b.val
    /\ ~a.ok => a.exc = b.exc

\* C23: process_events treats its input as an unordered stream: any two
\* arrival orders of the same events give the same nine metric values.
\* Every reordering is a chain of exchanges of two events.
C23_ArrivalOrderIrrelevant ==
    Processed =>
        \A i \in 1..Len(events), j \in 1..Len(events) :
            i < j => SameOutcome(ProcessEvents(Swap(events, i, j)),
                                 behavioral_metrics)

\* the metrics that do not depend on the arrival order
C23_OrderFreeMetrics ==
    Processed =>
        \A i \in 1..Len(events), j \in 1..Len(events) :
            LET other == ProcessEvents(Swap(events, i, j))
            IN (i < j /\ other.ok /\ behavioral_metrics.ok) =>
                  \A k \in {"decision_consistency", "exploration_score",
                            "error_recovery", "persistence", "social_score"} :
                      other.val[k] = behavioral_metrics.val[k]


(***************************************************************************)
(* Claims about the endpoints of app.py.                                   *)
(***************************************************************************)
AppAnalyzeEnded == analyzer = "mistral" /\ apc = "done"

\* C24: for an existing session, the analyze endpoint of app.py returns a
\* fused profile and never an HTTP 500, whatever events have been logged to
\* the session and whether the inference call succeeds or fails.
C24_AppAnalyzeNeverFails ==
    AppAnalyzeEnded => profile.via # "http500"

\* what does hold: a session without events gets its profile, whatever the
\* inference call does
C24_EmptySessionGetsProfile ==
    (AppAnalyzeEnded /\ events = << >>) => profile.via \in {"parsed", "fallback"}


\* two cached texts that the duplicate test is meant to tell apart
LongAndAlike(p, q) ==
    /\ p.type = "str" /\ q.type = "str"
    /\ Len(p.val) > 30 /\ Len(q.val) > 30
    /\ Prefix(Lower(p.val), 50) = Prefix(Lower(q.val), 50)

\* C25: under any interleaving of concurrent generate_question calls on one
\* analyzer, a stage's cache never holds two entries that are both longer
\* than 30 characters and have equal lower-cased first 50 characters.
C25_NoTwoLongAlikeEntries ==
    \A s \in DOMAIN generated_questions :
        \A i \in 1..Len(generated_questions[s]), j \in 1..Len(generated_questions[s]) :
            i < j => ~LongAndAlike(generated_questions[s][i],
                                   generated_questions[s][j])

\* both calls built their first prompt on the empty cache of one stage; the
\* first reply put a long text into the cache and the other call's reply
\* was then judged a duplicate of it
C25_Witness ==
    \E c \in Callers, d \in Callers :
        /\ c # d
        /\ stage[c] = stage[d]
        /\ SentOnEmptyCache(c)
        /\ outcomes[c] = <<"accepted">>
        /\ Len(result[c]["question"].val) > 30
        /\ Len(prompts[d]) >= 1
        /\ prompts[d][1].count = 0
        /\ Len(outcomes[d]) >= 1
        /\ outcomes[d][1] = "duplicate"
        /\ generated_questions[stage[c]] = <<result[c]["question"]>>


\* C26: generate_question for a stage reads and modifies only that stage's
\* cache entry: a call leaves the lists of all other stages as they were
\* (starting creates at most the stage's own empty list), and a reply whose
\* text is already cached under another stage, and is not a duplicate in
\* the stage's own list, is accepted and appended.
C26_OtherStagesUntouched ==
    [][/\ \A c \in Callers, s \in Stages :
             GenStart(c, s) =>
                /\ DOMAIN generated_questions' = DOMAIN generated_questions \cup {s}
                /\ \A t \in DOMAIN generated_questions :
                      generated_questions'[t] = generated_questions[t]
       /\ \A c \in Callers, r \in QuestionReplies :
             GenReply(c, r) =>
                /\ DOMAIN generated_questions' = DOMAIN generated_questions
                /\ \A t \in DOMAIN generated_questions \ {stage[c]} :
                      generated_questions'[t] = generated_questions[t]
       /\ \A c \in Callers, r \in QuestionReplies :
             LET parsed == ParseQuestionResult(r.text, stage[c])
                 own == generated_questions[stage[c]]
                 dup == IsDuplicateQuestion(parsed.val, own)
             IN (/\ analyzer = "mistral"
                 /\ GenReply(c, r)
                 /\ r.kind = "http" /\ r.status = 200
                 /\ parsed.ok /\ dup.ok /\ ~dup.val
                 /\ \E t \in DOMAIN generated_questions \ {stage[c]} :
                       \E i \in 1..Len(generated_questions[t]) :
                          generated_questions[t][i] = parsed.val["question"])
                => /\ pc'[c] = "returned"
                   /\ generated_questions'[stage[c]]
                         = Append(own, parsed.val["question"])]_vars

\* the same long text is cached under two stages, each put there by a call
\* for that stage
C26_Witness ==
    \E c \in Callers, d \in Callers :
        /\ stage[c] # stage[d]
        /\ ReturnedGenerated(c) /\ ReturnedGenerated(d)
        /\ result[c]["question"] = result[d]["question"]
        /\ result[c]["question"].type = "str"
        /\ Len(result[c]["question"].val) > 30
        /\ generated_questions[stage[c]] = <<result[c]["question"]>>
        /\ generated_questions[stage[d]] = <<result[c]["question"]>>


FallbackTexts ==
    { MistralFallbackQuestions[s]["question"] : s \in DOMAIN MistralFallbackQuestions }

\* C27: an attempt that ends in an error or a duplicate, and a call that
\* ends in the static fallback, leave the cached question texts of every
\* stage unchanged (starting a call creates at most an empty list for a
\* stage not seen before); the fallback question's text is never put into
\* the cache.
C27_FailuresLeaveCache ==
    [][/\ \A c \in Callers, r \in QuestionReplies :
             (/\ analyzer = "mistral"
              /\ GenReply(c, r)
              /\ Len(outcomes'[c]) = Len(outcomes[c]) + 1
              /\ outcomes'[c][Len(outcomes'[c])] \in {"error", "duplicate"})
             => generated_questions' = generated_questions
       /\ \A c \in Callers :
             (/\ analyzer = "mistral"
              /\ pc[c] # "returned"
              /\ pc'[c] = "returned"
              /\ \A i \in 1..Len(outcomes'[c]) :
                    outcomes'[c][i] \in {"error", "duplicate"})
             => /\ \A s \in DOMAIN generated_questions :
                      generated_questions'[s] = generated_questions[s]
                /\ \A s \in DOMAIN generated_questions' \ DOMAIN generated_questions :
                      generated_questions'[s] = << >>
                /\ \A s \in DOMAIN generated_questions' :
                      \A i \in 1..Len(generated_questions'[s]) :
                         generated_questions'[s][i] \notin FallbackTexts]_vars

\* a call ran into a duplicate and two more failures and returned the
\* fallback, while its stage's cache holds the one text another call put in
C27_Witness ==
    \E c \in Callers :
        /\ ReturnedFallback(c)
        /\ Len(outcomes[c]) = 3
        /\ \E i \in 1..3 : outcomes[c][i] = "duplicate"
        /\ \E i \in 1..3 : outcomes[c][i] = "error"
        /\ Len(generated_questions[stage[c]]) = 1
        /\ generated_questions[stage[c]][1] # result[c]["question"]


(***************************************************************************)
(* Claims about the fused fallback.                                        *)
(***************************************************************************)
FusedFallback == apc = "done" /\ profile.via = "fallback"

\* the metric an ability is fused with, times 100
HundredfoldMetric(a) ==
    LET key == CASE a = "analytical" -> "logic_score"
                 [] a = "creative" -> "creativity_score"
                 [] a = "social" -> "social_score"
                 [] a = "technical" -> "technical_score"
                 [] OTHER -> "exploration_score"
        given == behavioral_metrics.val
    IN RMul(IF key \in DOMAIN given THEN given[key] ELSE Rat(1, 2), Rat(100, 1))

\* x rounded to one decimal, a halfway case to the even neighbour, in
\* thousandths
RoundedToOneDecimal(x) ==
    LET t == RMul(x, Rat(10, 1))
        f == t.n \div t.d
        r == t.n % t.d
    IN IF 2 * r < t.d THEN f * 100
       ELSE IF 2 * r > t.d THEN (f + 1) * 100
       ELSE IF f % 2 = 0 THEN f * 100 ELSE (f + 1) * 100

\* C28, as claimed: when analyze_responses falls back, the fused score of
\* each of the five abilities is exactly the mapped behavioural metric
\* times 100 rounded to one decimal, and the confidence is 0.6.
C28_FusedFallbackIsRoundedMetric ==
    FusedFallback =>
        /\ \A a \in {"analytical", "creative", "social", "technical", "research"} :
              profile.body.scores[a] = RoundedToOneDecimal(HundredfoldMetric(a))
        /\ profile.body.confidence = 600

\* C28, amended: when analyze_responses falls back, the fused score of each
\* ability is a one-decimal number at most 0.05 away from the mapped
\* behavioural metric times 100 (which of the two neighbours a halfway case
\* gets is not fixed), and the confidence is 0.6.
C28_FusedFallbackIsNearestTenth ==
    FusedFallback =>
        /\ \A a \in {"analytical", "creative", "social", "technical", "research"} :
              LET fused == Rat(profile.body.scores[a], 1000)
                  gap == RSub(fused, HundredfoldMetric(a))
              IN /\ profile.body.scores[a] % 100 = 0
                 /\ ~RLt(Rat(1, 20), gap)
                 /\ ~RLt(gap, Rat(-1, 20))
        /\ profile.body.confidence = 600

\* the metric 0.5735 was fused to 57.3, and 1/3 to 33.3
C28_Witness ==
    /\ FusedFallback
    /\ {"logic_score", "technical_score"} \subseteq DOMAIN behavioral_metrics.val
    /\ behavioral_metrics.val["technical_score"] = Rat(1147, 2000)
    /\ profile.body.scores["technical"] = 57300
    /\ behavioral_metrics.val["logic_score"] = Rat(1, 3)
    /\ profile.body.scores["analytical"] = 33300


(***************************************************************************)
(* Claims about the sessions of app.py.                                    *)
(***************************************************************************)
\* the response is 404 and neither the sessions nor the analyzer's calls,
\* cache and analysis have changed
RejectedUnchanged ==
    /\ http_status' = 404
    /\ active_sessions' = active_sessions
    /\ UNCHANGED <<generated_questions, pc, requests, prompts, callsMade, apc,
                   aresponse, aresult, profile>>

\* C29: in app.py, log_event, log_response, generate-question and analyze
\* called with a session id that is not in active_sessions are rejected
\* with a 404 and change nothing: no session is created or modified, no
\* inference call is issued and the question cache is unchanged.
C29_UnknownSessionRejected ==
    [][\A id \in SessionIds :
          id \notin DOMAIN active_sessions =>
             /\ SessionLogEvent(id, Click(100)) => RejectedUnchanged
             /\ \A data \in ResponseData :
                   SessionLogResponse(id, data) => RejectedUnchanged
             /\ SessionGenerateQuestion(1, id, "analytical") => RejectedUnchanged
             /\ SessionAnalyze(id) => RejectedUnchanged]_vars

\* a request was rejected while a session with an event and a response
\* exists and the cache holds a question
C29_Witness ==
    /\ http_status = 404
    /\ \E id \in DOMAIN active_sessions :
          /\ Len(active_sessions[id].events) = 1
          /\ DOMAIN active_sessions[id].responses # {}
    /\ "analytical" \in DOMAIN generated_questions
    /\ Len(generated_questions["analytical"]) = 1

\* C30: start_session always creates its session under an id that is not
\* yet in active_sessions, so the events and responses recorded for an
\* existing session are never replaced or discarded by a later
\* start_session, two starts within the same millisecond included.
C30_StartKeepsExistingSessions ==
    [][StartSession =>
          /\ clock \notin DOMAIN active_sessions
          /\ \A id \in DOMAIN active_sessions :
                /\ id \in DOMAIN active_sessions'
                /\ active_sessions'[id] = active_sessions[id]]_vars

\* what start_session does keep: the sessions of other milliseconds
C30_StartKeepsOtherSessions ==
    [][StartSession =>
          \A id \in DOMAIN active_sessions \ {clock} :
              /\ id \in DOMAIN active_sessions'
              /\ active_sessions'[id] = active_sessions[id]]_vars

====
